---- MODULE Spec2Model ----
(***************************************************************************)
(* Knowledge Context Assembly Pipeline (backend/app/services).             *)
(*                                                                         *)
(* Text values are sequences of one-character strings, so that lower-      *)
(* casing, substring search and whitespace splitting are computed the way  *)
(* the code and the Cypher queries compute them.  Confidence scores and    *)
(* vector distances are integers in hundredths (0.90 is 90).               *)
(***************************************************************************)
EXTENDS Integers, Sequences, FiniteSets, TLC

VARIABLES nodes, edges, collection, last,
          company_data, company_stores, requests, writes

vars == <<nodes, edges, collection, last,
          company_data, company_stores, requests, writes>>

\* the root deployment's company profile and stores (src/main.py), and the
\* context requests in flight with the number of store writes made
\* meanwhile: the services of backend/app leave these alone
others == <<company_data, company_stores, requests, writes>>

NoCompanyData ==
    [name |-> "", industry |-> "", documents |-> <<>>, context_summary |-> "",
     business_processes |-> <<>>, key_metrics |-> <<>>]
NoCompanyStores ==
    [companies |-> {}, has_process |-> {}, has_goal |-> {},
     has_document |-> {}, collection |-> {}]
NoRequests == [r \in {} |-> {}]

\* the worker serves no call of the context engine
Quiet == \A r \in DOMAIN requests : requests[r].pc = "new"

NothingElse ==
    /\ company_data = NoCompanyData
    /\ company_stores = NoCompanyStores
    /\ requests = NoRequests
    /\ writes = 0

(***************************************************************************)
(* Text helpers                                                            *)
(***************************************************************************)
None == <<"<None>">>

\* The letters that have a lower-case form, in the alphabet of the texts:
\* ASCII, Latin-1 and the spaces of Whitespace (beyond ASCII a character is
\* written as its Python escape; the capitals 0xc0-0xde without the sign
\* 0xd7 have their lower-case form 0x20 higher).
UpperCase == <<"A","B","C","D","E","F","G","H","I","J","K","L","M",
               "N","O","P","Q","R","S","T","U","V","W","X","Y","Z",
               "\\xc0","\\xc1","\\xc2","\\xc3","\\xc4","\\xc5","\\xc6","\\xc7",
               "\\xc8","\\xc9","\\xca","\\xcb","\\xcc","\\xcd","\\xce","\\xcf",
               "\\xd0","\\xd1","\\xd2","\\xd3","\\xd4","\\xd5","\\xd6","\\xd8",
               "\\xd9","\\xda","\\xdb","\\xdc","\\xdd","\\xde">>

LowerCase == <<"a","b","c","d","e","f","g","h","i","j","k","l","m",
               "n","o","p","q","r","s","t","u","v","w","x","y","z",
               "\\xe0","\\xe1","\\xe2","\\xe3","\\xe4","\\xe5","\\xe6","\\xe7",
               "\\xe8","\\xe9","\\xea","\\xeb","\\xec","\\xed","\\xee","\\xef",
               "\\xf0","\\xf1","\\xf2","\\xf3","\\xf4","\\xf5","\\xf6","\\xf8",
               "\\xf9","\\xfa","\\xfb","\\xfc","\\xfd","\\xfe">>

\* Python: the characters str.split() and str.strip() take for whitespace
\* (str.isspace).  A text is a sequence of characters, one string each; a
\* character that a string of this language cannot hold is written as its
\* Python escape.
Whitespace ==
    {" ", "\t", "\n", "\r", "\f", "\\x0b", "\\x1c", "\\x1d", "\\x1e", "\\x1f",
     "\\x85", "\\xa0", "\\u1680", "\\u2000", "\\u2001", "\\u2002", "\\u2003",
     "\\u2004", "\\u2005", "\\u2006", "\\u2007", "\\u2008", "\\u2009",
     "\\u200a", "\\u2028", "\\u2029", "\\u202f", "\\u205f", "\\u3000"}

\* Python str.lower() and Cypher toLower(), one character
toLowerChar(c) ==
    IF \E i \in 1..Len(UpperCase) : UpperCase[i] = c
    THEN LowerCase[CHOOSE i \in 1..Len(UpperCase) : UpperCase[i] = c]
    ELSE c

toLower(s) == [i \in 1..Len(s) |-> toLowerChar(s[i])]

\* Cypher: s CONTAINS t
Contains(s, t) ==
    \E i \in 0..(Len(s) - Len(t)) : SubSeq(s, i + 1, i + Len(t)) = t

\* Python: seq[:n] for n >= 0
Take(seq, n) == SubSeq(seq, 1, IF n < Len(seq) THEN n ELSE Len(seq))

\* Python: str.split() - split on runs of whitespace, no empty words
RECURSIVE SplitFrom(_, _, _)
SplitFrom(s, i, word) ==
    IF i > Len(s)
    THEN IF word = <<>> THEN <<>> ELSE <<word>>
    ELSE IF s[i] \in Whitespace
         THEN IF word = <<>>
              THEN SplitFrom(s, i + 1, <<>>)
              ELSE <<word>> \o SplitFrom(s, i + 1, <<>>)
         ELSE SplitFrom(s, i + 1, Append(word, s[i]))

split(s) == SplitFrom(s, 1, <<>>)

\* Python: [x for x in seq if P(x)]
RECURSIVE FilterSeq(_, _)
FilterSeq(seq, keep) ==
    IF seq = <<>> THEN <<>>
    ELSE (IF Head(seq) \in keep THEN <<Head(seq)>> ELSE <<>>)
         \o FilterSeq(Tail(seq), keep)

Range(seq) == {seq[i] : i \in 1..Len(seq)}

(***************************************************************************)
(* Enumerations (app/models/knowledge.py)                                  *)
(***************************************************************************)
EntityType ==
    {"company", "person", "product", "service", "location", "industry",
     "technology", "concept", "event", "organization"}

RelationshipType ==
    {"competes_with", "partners_with", "acquires", "invests_in", "employs",
     "founded", "located_in", "operates_in", "provides", "uses",
     "similar_to", "parent_of", "subsidiary_of"}

(***************************************************************************)
(* Graph Store (KnowledgeGraph over Neo4j).                                *)
(* nodes : entity id -> the Entity search_entities builds from the node    *)
(* edges : <<source id, target id>> -> RELATES_TO relationship properties  *)
(* ok    : whether the driver reaches the store (FALSE: session.run raises)*)
(*                                                                         *)
(* The store is a server of its own: what it holds was written by any of   *)
(* its clients.  A property value is a primitive or a list of primitives.  *)
(* A map is none: SET x.p = $p with a Python dict for p is a type error of *)
(* the store, and the transaction of the statement writes nothing.         *)
(***************************************************************************)
EntityIds == <<"e1", "e2", "e3", "e4", "e5", "e6">>

\* Python: itertools.permutations, as a set of sequences
RECURSIVE permutations(_)
permutations(S) ==
    IF S = {} THEN {<<>>}
    ELSE UNION {{<<x>> \o p : p \in permutations(S \ {x})} : x \in S}

\* The store's own row order among equal sort keys is any order of the
\* ids.  TieOrdersOn(S) holds one such order for every way of arranging the
\* ids of S: the ids of S first, the other ids behind them as EntityIds
\* lists them.
TieOrdersOn(S) ==
    {p \o SelectSeq(EntityIds, LAMBDA id : id \notin S) : p \in permutations(S)}

TieOrders == TieOrdersOn({EntityIds[i] : i \in 1..Len(EntityIds)})

RankIn(tie, id) == CHOOSE i \in 1..Len(tie) : tie[i] = id

\* the entities that share their confidence score with another entity: the
\* rows ORDER BY e.confidence_score leaves in the store's own order
TiedEntities(ns) ==
    {id \in DOMAIN ns : \E o \in DOMAIN ns :
        o # id /\ ns[o].confidence_score = ns[id].confidence_score}

\* the targets of the relationships of entity_id that share their
\* confidence score with another relationship of entity_id
TiedTargets(es, entity_id) ==
    {p[2] : p \in {q \in DOMAIN es :
        /\ q[1] = entity_id
        /\ \E o \in DOMAIN es :
               /\ o # q /\ o[1] = entity_id
               /\ es[o].confidence_score = es[q].confidence_score}}

\* MERGE (e:Entity {id: $id}) SET e.name = $name, ...: what the statement
\* of create_entity asks of the store, the upsert of the entity: the node
\* of that id, made if there is none, holds the values of the call.
MergeSetEntity(ns, entity) ==
    [id \in DOMAIN ns \cup {entity.id} |->
        IF id = entity.id THEN entity ELSE ns[id]]

\* KnowledgeGraph.create_entity: MERGE (e:Entity {id}) SET e.name = ...,
\* e.attributes = $attributes, ... with entity.attributes, a Python dict
\* ({} by default), for $attributes.  The store rejects the map, whatever
\* it holds, so that the statement writes nothing for any entity.
\* rejection_raised tells where the driver hands the store's error over:
\* inside session.run (except: return False), or when the session closes
\* at the end of the with block, which drops the error of a result nobody
\* consumed (return True).
create_entity(ns, es, entity, ok, rejection_raised) ==
    IF ~ok THEN [nodes |-> ns, edges |-> es, ret |-> FALSE]
    ELSE IF "attributes" \in DOMAIN entity
         THEN [nodes |-> ns, edges |-> es, ret |-> ~rejection_raised]
         ELSE [nodes |-> MergeSetEntity(ns, entity), edges |-> es, ret |-> TRUE]

\* The rows of: MATCH (source {id}) MATCH (target {id}) MERGE (source)-[r]->(target)
MatchEndpoints(ns, relationship) ==
    IF relationship.source_entity_id \in DOMAIN ns
       /\ relationship.target_entity_id \in DOMAIN ns
    THEN {<<relationship.source_entity_id, relationship.target_entity_id>>}
    ELSE {}

\* The properties of a RELATES_TO relationship with the values of a
\* Relationship: those of the parameters of SET r.* = ... that the store
\* can hold and a reader or a claim looks at (r.properties is a map;
\* r.extraction_method and the two timestamps are read by nothing).
EdgeProperties(relationship) ==
    [relationship_type |-> relationship.relationship_type,
     confidence_score |-> relationship.confidence_score,
     source_documents |-> relationship.source_documents]

\* KnowledgeGraph.create_relationship: no row matched means no MERGE and no
\* SET, and no exception: the method returns True.  With both entities
\* stored, SET r.properties = $properties hands a Python dict ({} by
\* default) to the store, which rejects the map: the MERGE of the same
\* transaction is undone with it.  rejection_raised as for create_entity.
create_relationship(ns, es, relationship, ok, rejection_raised) ==
    IF ~ok THEN [nodes |-> ns, edges |-> es, ret |-> FALSE]
    ELSE IF MatchEndpoints(ns, relationship) = {}
         THEN [nodes |-> ns, edges |-> es, ret |-> TRUE]
         ELSE IF "properties" \in DOMAIN relationship
              THEN [nodes |-> ns, edges |-> es, ret |-> ~rejection_raised]
              ELSE [nodes |-> ns,
                    edges |-> [p \in DOMAIN es \cup MatchEndpoints(ns, relationship) |->
                                  IF p \in MatchEndpoints(ns, relationship)
                                  THEN EdgeProperties(relationship) ELSE es[p]],
                    ret |-> TRUE]

delete_entity_outgoing_only(ns, es, entity_id, ok) ==
    IF ok
    THEN [nodes |-> [id \in DOMAIN ns \ {entity_id} |-> ns[id]],
          edges |-> [p \in {q \in DOMAIN es : q[1] # entity_id} |-> es[p]],
          ret |-> TRUE]
    ELSE [nodes |-> ns, edges |-> es, ret |-> FALSE]

\* MATCH (e:Entity {id}) DETACH DELETE e
delete_entity(ns, es, entity_id, ok) ==
    IF ok
    THEN [nodes |-> [id \in DOMAIN ns \ {entity_id} |-> ns[id]],
          edges |-> [p \in {q \in DOMAIN es :
                               q[1] # entity_id /\ q[2] # entity_id} |-> es[p]],
          ret |-> TRUE]
    ELSE [nodes |-> ns, edges |-> es, ret |-> FALSE]

NameMatches(e, query) == Contains(toLower(e.name), toLower(query))

DescriptionMatches(e, query) ==
    e.description # None /\ Contains(toLower(e.description), toLower(query))

\* WHERE name-match OR (description-match) [AND e.entity_type IN $entity_types]
\* Cypher's AND binds tighter than OR; the type clause is appended only for a
\* non-empty list.
SearchWhere(e, query, entity_types) ==
    IF entity_types # {}
    THEN NameMatches(e, query)
         \/ (DescriptionMatches(e, query) /\ e.entity_type \in entity_types)
    ELSE NameMatches(e, query) \/ DescriptionMatches(e, query)

\* ORDER BY confidence_score DESC; rows with equal scores in the store's order
RECURSIVE OrderByConfidenceDesc(_, _, _)
OrderByConfidenceDesc(keys, score, rank) ==
    IF keys = {} THEN <<>>
    ELSE LET first == CHOOSE k \in keys : \A o \in keys :
                          \/ score[k] > score[o]
                          \/ score[k] = score[o] /\ rank[k] <= rank[o]
         IN <<first>> \o OrderByConfidenceDesc(keys \ {first}, score, rank)

\* Python: {} - the value of Entity.attributes and of
\* Relationship.properties by default, and of r.get('properties', {}) for
\* a relationship, which never has that property
NoAttributes == [k \in {} |-> k]
NoProperties == [k \in {} |-> k]

\* search_entities without its ORDER BY clause: rows in the store's order
search_entities_unordered(ns, query, entity_types, limit, tie, ok) ==
    IF ~ok \/ limit < 0 THEN <<>>
    ELSE LET hits == {id \in DOMAIN ns : SearchWhere(ns[id], query, entity_types)}
             rows == OrderByConfidenceDesc(hits, [id \in hits |-> 0],
                                           [id \in hits |-> RankIn(tie, id)])
         IN [i \in 1..Len(Take(rows, limit)) |-> ns[rows[i]]]

\* KnowledgeGraph.search_entities: [] when the driver raises (a negative
\* LIMIT is rejected by the store, which raises as well)
search_entities(ns, query, entity_types, limit, tie, ok) ==
    IF ~ok \/ limit < 0 THEN <<>>
    ELSE LET hits == {id \in DOMAIN ns : SearchWhere(ns[id], query, entity_types)}
             rows == OrderByConfidenceDesc(hits,
                         [id \in hits |-> ns[id].confidence_score],
                         [id \in hits |-> RankIn(tie, id)])
         IN [i \in 1..Len(Take(rows, limit)) |-> ns[rows[i]]]

\* get_entity_relationships without its ORDER BY clause
get_entity_relationships_unordered(ns, es, entity_id, relationship_types, tie, ok) ==
    IF ~ok THEN <<>>
    ELSE LET out == {p \in DOMAIN es :
                        /\ p[1] = entity_id
                        /\ (relationship_types # {} =>
                              es[p].relationship_type \in relationship_types)}
             rows == OrderByConfidenceDesc(out, [p \in out |-> 0],
                         [p \in out |-> RankIn(tie, p[2])])
         IN [i \in 1..Len(rows) |->
                [source_entity |-> [id |-> rows[i][1],
                                    name |-> ns[rows[i][1]].name,
                                    entity_type |-> ns[rows[i][1]].entity_type],
                 target_entity |-> [id |-> rows[i][2],
                                    name |-> ns[rows[i][2]].name,
                                    entity_type |-> ns[rows[i][2]].entity_type],
                 relationship |-> [type |-> es[rows[i]].relationship_type,
                                   properties |-> NoProperties,
                                   confidence_score |-> es[rows[i]].confidence_score]]]

\* KnowledgeGraph.get_entity_relationships (no type filter is passed by the
\* context engine; an empty set stands for None)
get_entity_relationships(ns, es, entity_id, relationship_types, tie, ok) ==
    IF ~ok THEN <<>>
    ELSE LET out == {p \in DOMAIN es :
                        /\ p[1] = entity_id
                        /\ (relationship_types # {} =>
                              es[p].relationship_type \in relationship_types)}
             rows == OrderByConfidenceDesc(out,
                         [p \in out |-> es[p].confidence_score],
                         [p \in out |-> RankIn(tie, p[2])])
         IN [i \in 1..Len(rows) |->
                [source_entity |-> [id |-> rows[i][1],
                                    name |-> ns[rows[i][1]].name,
                                    entity_type |-> ns[rows[i][1]].entity_type],
                 target_entity |-> [id |-> rows[i][2],
                                    name |-> ns[rows[i][2]].name,
                                    entity_type |-> ns[rows[i][2]].entity_type],
                 relationship |-> [type |-> es[rows[i]].relationship_type,
                                   properties |-> NoProperties,
                                   confidence_score |-> es[rows[i]].confidence_score]]]

\* The rows of: RETURN x.<field> as type, count(x) as count (one row per
\* value; rows with equal counts come in the store's order)
CountByType(items, field) ==
    {[type |-> t, count |-> Cardinality({k \in DOMAIN items : items[k][field] = t})] :
        t \in {items[k][field] : k \in DOMAIN items}}

\* KnowledgeGraph.get_graph_statistics on a store that does not change
\* during the call: zeros and empty lists when the driver raises
get_graph_statistics(ns, es, ok) ==
    IF ok
    THEN [total_entities |-> Cardinality(DOMAIN ns),
          total_relationships |-> Cardinality(DOMAIN es),
          entity_types |-> CountByType(ns, "entity_type"),
          relationship_types |-> CountByType(es, "relationship_type")]
    ELSE [total_entities |-> 0, total_relationships |-> 0,
          entity_types |-> {}, relationship_types |-> {}]

(***************************************************************************)
(* Inputs of the graph operations                                          *)
(***************************************************************************)
Name_AcmeCorp == <<"A","c","m","e"," ","C","o","r","p">>
Name_AcmeSub == <<"A","C","M","E"," ","S","u","b">>
Name_BetaInc == <<"B","e","t","a"," ","I","n","c">>
Name_Zeta == <<"Z","e","t","a">>
Desc_AcmeRival == <<"A","c","m","e"," ","r","i","v","a","l">>

\* the fields left at their defaults: attributes {}, extraction_method
\* "llm", aliases [] and tags []; created_at and updated_at, the time of
\* construction, are kept out of the records
Entity(id, name, type, description, score, docs) ==
    [id |-> id, name |-> name, entity_type |-> type,
     description |-> description, attributes |-> NoAttributes,
     confidence_score |-> score, source_documents |-> docs,
     extraction_method |-> "llm", aliases |-> <<>>, tags |-> <<>>]

\* the fields left at their defaults: properties {} and extraction_method
\* "llm"; id, created_at and updated_at are kept out of the records
Relationship(source, target, type, score, docs) ==
    [source_entity_id |-> source, target_entity_id |-> target,
     relationship_type |-> type, properties |-> NoProperties,
     confidence_score |-> score, source_documents |-> docs,
     extraction_method |-> "llm"]

EntityPool ==
    { Entity("e1", Name_AcmeCorp, "company", None, 90, <<"d1">>),
      Entity("e1", Name_Zeta, "company", None, 50, <<"d1", "d2">>),
      Entity("e2", Name_AcmeSub, "company", None, 70, <<"d2">>),
      Entity("e3", Name_BetaInc, "company", Desc_AcmeRival, 90, <<>>),
      Entity("e3", Name_BetaInc, "person", None, 80, <<"d1">>) }

RelationshipPool ==
    { Relationship("e1", "e2", "parent_of", 80, <<"d3">>),
      Relationship("e1", "e2", "partners_with", 60, <<>>),
      Relationship("e2", "e3", "competes_with", 80, <<"d2">>),
      Relationship("e3", "e1", "competes_with", 70, <<"d4">>),
      Relationship("e1", "e1", "similar_to", 80, <<>>),
      Relationship("e1", "e4", "uses", 50, <<"d3">>) }

DeletePool == {"e1", "e2", "e3", "e4"}

MaxWrites == 2

\* what other clients of the store upsert and delete while a request is in
\* flight, and what other workers pass to create_entity and
\* create_relationship
ConcurrentEntities ==
    { Entity("e1", Name_AcmeCorp, "company", Desc_AcmeRival, 60, <<"d1", "d2">>),
      Entity("e4", Name_AcmeSub, "company", None, 95, <<"d2">>) }

ConcurrentRelationships ==
    { Relationship("e1", "e3", "partners_with", 90, <<"d3">>) }

ConcurrentDeletes == {"e2"}

\* what other clients of the store have written to it
AcmeNodes ==
    [id \in {"e1", "e2", "e3"} |->
        CASE id = "e1" -> Entity("e1", Name_AcmeCorp, "company", None, 90, <<"d1">>)
          [] id = "e2" -> Entity("e2", Name_AcmeSub, "company", None, 70, <<"d2">>)
          [] id = "e3" -> Entity("e3", Name_BetaInc, "company", Desc_AcmeRival,
                                 90, <<>>)]

AcmeEdges ==
    [p \in {<<"e1", "e2">>, <<"e2", "e3">>, <<"e3", "e1">>} |->
        CASE p = <<"e1", "e2">> ->
                 EdgeProperties(Relationship("e1", "e2", "parent_of", 80, <<"d3">>))
          [] p = <<"e2", "e3">> ->
                 EdgeProperties(Relationship("e2", "e3", "competes_with", 80, <<"d2">>))
          [] p = <<"e3", "e1">> ->
                 EdgeProperties(Relationship("e3", "e1", "competes_with", 70, <<"d4">>))]

\* three entities of one confidence score; two relationships of e1 of one
\* confidence score
PeerNodes ==
    [id \in {"e1", "e2", "e3"} |->
        CASE id = "e1" -> Entity("e1", Name_AcmeCorp, "company", None, 90, <<"d1">>)
          [] id = "e2" -> Entity("e2", Name_AcmeSub, "company", None, 90, <<"d2">>)
          [] id = "e3" -> Entity("e3", Name_BetaInc, "person", Desc_AcmeRival,
                                 90, <<>>)]

PeerEdges ==
    [p \in {<<"e1", "e2">>, <<"e1", "e3">>, <<"e3", "e1">>} |->
        CASE p = <<"e1", "e2">> ->
                 EdgeProperties(Relationship("e1", "e2", "parent_of", 80, <<"d3">>))
          [] p = <<"e1", "e3">> ->
                 EdgeProperties(Relationship("e1", "e3", "partners_with", 80, <<>>))
          [] p = <<"e3", "e1">> ->
                 EdgeProperties(Relationship("e3", "e1", "competes_with", 70, <<"d4">>))]


Q_Acme == <<"A","c","m","e">>
Q_WhatIsAcme == <<"w","h","a","t"," ","i","s"," ","A","c","m","e">>
Q_TopTenBigAcme ==
    <<"t","o","p"," ","t","e","n"," "," ","b","i","g"," ","a","c","m","e">>
Q_Beta == <<"b","e","t","a">>
Q_CorpSubBeta == <<"C","o","r","p"," ","s","u","b"," ","b","e","t","a">>
Q_AcmeCorp == <<"a","c","m","e"," ","c","o","r","p">>
Q_Empty == <<>>
Q_Unknown == <<"q","u","u","x">>

Queries == {Q_Acme, Q_WhatIsAcme, Q_TopTenBigAcme, Q_Beta, Q_Empty, Q_Unknown}

TypeFilters == {{}, {"person"}, {"company"}, {"company", "person"}}

MaxLimit == 3

NoNodes == [id \in {} |-> id]
NoEdges == [p \in {} |-> p]
NoChunks == [k \in {} |-> k]

(***************************************************************************)
(* Graph Store operations as steps.  Requests are served one at a time:    *)
(* last is Idle, or the record of the call just served (its arguments and  *)
(* what it returned) until the response is handed back.                    *)
(***************************************************************************)
Idle == [op |-> "idle"]

\* the four statements of get_graph_statistics, each in a transaction of
\* its own
StatisticsStatements == 4

\* a call made statement by statement is served once its last statement ran
Served ==
    last.op = "get_graph_statistics" => last.pc = StatisticsStatements + 1

Respond ==
    /\ last # Idle
    /\ Served
    /\ last' = Idle
    /\ UNCHANGED <<nodes, edges, collection>>
    /\ UNCHANGED others

IncidentEdges(es, entity_id) ==
    {p \in DOMAIN es : p[1] = entity_id \/ p[2] = entity_id}

CreateEntity ==
    /\ last = Idle
    /\ \E entity \in EntityPool, ok \in BOOLEAN, rejection_raised \in BOOLEAN :
        LET r == create_entity(nodes, edges, entity, ok, rejection_raised)
        IN /\ nodes' = r.nodes
           /\ edges' = r.edges
           /\ last' = [op |-> "create_entity", entity |-> entity, ret |-> r.ret]
           /\ UNCHANGED collection
    /\ UNCHANGED others

CreateRelationship ==
    /\ last = Idle
    /\ \E relationship \in RelationshipPool, ok \in BOOLEAN,
          rejection_raised \in BOOLEAN :
        LET r == create_relationship(nodes, edges, relationship, ok,
                                     rejection_raised)
        IN /\ nodes' = r.nodes
           /\ edges' = r.edges
           /\ last' = [op |-> "create_relationship",
                       relationship |-> relationship, ret |-> r.ret,
                       previous_type |->
                           IF <<relationship.source_entity_id,
                                relationship.target_entity_id>> \in DOMAIN edges
                           THEN edges[<<relationship.source_entity_id,
                                        relationship.target_entity_id>>].relationship_type
                           ELSE "none"]
           /\ UNCHANGED collection
    /\ UNCHANGED others

DeleteEntity ==
    /\ last = Idle
    /\ Quiet
    /\ \E entity_id \in DeletePool, ok \in BOOLEAN :
        LET r == delete_entity(nodes, edges, entity_id, ok)
        IN /\ nodes' = r.nodes
           /\ edges' = r.edges
           /\ last' = [op |-> "delete_entity", entity_id |-> entity_id,
                       ret |-> r.ret,
                       relationships_deleted |->
                           Cardinality(DOMAIN edges \ DOMAIN r.edges)]
           /\ UNCHANGED collection
    /\ UNCHANGED others

SearchEntities ==
    /\ last = Idle
    /\ \E query \in Queries, entity_types \in TypeFilters, limit \in 0..MaxLimit,
       tie \in TieOrdersOn(TiedEntities(nodes)), ok \in BOOLEAN :
        /\ last' = [op |-> "search_entities", query |-> query,
                    entity_types |-> entity_types, limit |-> limit,
                    result |-> search_entities(nodes, query, entity_types,
                                               limit, tie, ok)]
        /\ UNCHANGED <<nodes, edges, collection>>
    /\ UNCHANGED others

InitGraph ==
    /\ \/ nodes = NoNodes /\ edges = NoEdges
       \/ nodes = AcmeNodes /\ edges = AcmeEdges
       \/ nodes = PeerNodes /\ edges = PeerEdges
    /\ collection = NoChunks
    /\ last = Idle
    /\ NothingElse

NoStatistics ==
    [total_entities |-> 0, total_relationships |-> 0,
     entity_types |-> {}, relationship_types |-> {}]

\* get_graph_statistics after its next statement: the statement reads the
\* store as it is then; if it raises, the except branch returns zeros and
\* empty lists
AfterStatistic(call, ns, es, ok) ==
    IF ~ok THEN [call EXCEPT !.pc = StatisticsStatements + 1,
                             !.result = NoStatistics]
    ELSE LET result ==
                 CASE call.pc = 1 -> [call.result EXCEPT
                          !.total_entities = Cardinality(DOMAIN ns)]
                   [] call.pc = 2 -> [call.result EXCEPT
                          !.total_relationships = Cardinality(DOMAIN es)]
                   [] call.pc = 3 -> [call.result EXCEPT
                          !.entity_types = CountByType(ns, "entity_type")]
                   [] call.pc = 4 -> [call.result EXCEPT
                          !.relationship_types =
                              CountByType(es, "relationship_type")]
         IN [call EXCEPT !.result = result,
                         !.pc = call.pc + 1]

\* get_graph_statistics is called
GetGraphStatistics ==
    /\ last = Idle
    /\ last' = [op |-> "get_graph_statistics", pc |-> 1,
                result |-> NoStatistics]
    /\ UNCHANGED <<nodes, edges, collection>>
    /\ UNCHANGED others

StatisticsInFlight ==
    /\ last # Idle
    /\ last.op = "get_graph_statistics"
    /\ last.pc <= StatisticsStatements

\* the next statement of the call runs
RunStatistic ==
    /\ StatisticsInFlight
    /\ \E ok \in BOOLEAN : last' = AfterStatistic(last, nodes, edges, ok)
    /\ UNCHANGED <<nodes, edges, collection>>
    /\ UNCHANGED others

\* between two statements of the call another client of the Graph Store
\* server sets the properties of an Entity node or of a relationship, or
\* another worker deletes an entity
WriteBetweenStatistics ==
    /\ StatisticsInFlight
    /\ last.pc # 1
    /\ writes < MaxWrites
    /\ \/ \E entity \in ConcurrentEntities :
              /\ nodes' = [id \in DOMAIN nodes \cup {entity.id} |->
                              IF id = entity.id THEN entity ELSE nodes[id]]
              /\ edges' = edges
       \/ \E relationship \in ConcurrentRelationships :
              /\ MatchEndpoints(nodes, relationship) # {}
              /\ LET pair == <<relationship.source_entity_id,
                               relationship.target_entity_id>>
                 IN edges' = [p \in DOMAIN edges \cup {pair} |->
                                 IF p = pair THEN EdgeProperties(relationship)
                                 ELSE edges[p]]
              /\ nodes' = nodes
       \/ \E entity_id \in ConcurrentDeletes :
              /\ nodes' = delete_entity(nodes, edges, entity_id, TRUE).nodes
              /\ edges' = delete_entity(nodes, edges, entity_id, TRUE).edges
    /\ writes' = writes + 1
    /\ UNCHANGED <<collection, last, company_data, company_stores, requests>>

NextGraph ==
    \/ CreateEntity \/ CreateRelationship \/ DeleteEntity \/ SearchEntities
    \/ GetGraphStatistics \/ RunStatistic \/ Respond

SpecGraph == InitGraph /\ [][NextGraph]_vars

\* get_graph_statistics on a store other clients write to during the call
NextStatistics ==
    \/ GetGraphStatistics \/ RunStatistic \/ WriteBetweenStatistics \/ Respond

SpecStatistics == InitGraph /\ [][NextStatistics]_vars

(***************************************************************************)
(* C5: create_relationship returns False whenever the source or the target *)
(* entity is not in the store, and then stores nothing; it returns True    *)
(* only if the relationship is stored afterwards.                          *)
(***************************************************************************)
C5_MissingEndpointReportsFailure ==
    [][ last'.op = "create_relationship" =>
          LET r == last'.relationship
              p == <<r.source_entity_id, r.target_entity_id>>
          IN /\ (p[1] \notin DOMAIN nodes \/ p[2] \notin DOMAIN nodes)
                    => (last'.ret = FALSE /\ edges' = edges)
             /\ last'.ret = TRUE
                    => (p \in DOMAIN edges' /\ edges'[p] = EdgeProperties(r))
      ]_vars

(***************************************************************************)
(* C6: every relationship in the store has a source and a target that are  *)
(* both in the store, and after a successful delete_entity(id) no          *)
(* relationship has id as its source or its target.                        *)
(***************************************************************************)
C6_EndpointsExist ==
    /\ \A p \in DOMAIN edges : p[1] \in DOMAIN nodes /\ p[2] \in DOMAIN nodes
    /\ (last.op = "delete_entity" /\ last.ret)
           => IncidentEdges(edges, last.entity_id) = {}

C6_Witness ==
    /\ last.op = "delete_entity"
    /\ last.ret
    /\ last.relationships_deleted >= 2
    /\ DOMAIN edges # {}

(***************************************************************************)
(* C7: with a non-empty type filter every entity search_entities returns   *)
(* has a type in the filter and matches the query, case-insensitively, in  *)
(* its name or its description.                                            *)
(***************************************************************************)
C7_TypeFilterApplies ==
    (last.op = "search_entities" /\ last.entity_types # {})
        => \A i \in 1..Len(last.result) :
              /\ last.result[i].entity_type \in last.entity_types
              /\ (NameMatches(last.result[i], last.query)
                  \/ DescriptionMatches(last.result[i], last.query))

(***************************************************************************)
(* Vector Index (VectorStore over a ChromaDB collection, cosine space).    *)
(* collection : <<document id, chunk index>> -> stored document + metadata *)
(* The embedding is the store's business: a query is answered from the     *)
(* distance the store assigns to every stored chunk (distance) and the     *)
(* order in which it ranks them (nearest, ascending in distance).          *)
(***************************************************************************)
DocumentChunk(document_id, chunk_index, content) ==
    [document_id |-> document_id, chunk_index |-> chunk_index,
     content |-> content]

\* chunk_id = f"{chunk.document_id}_{chunk.chunk_index}"
ChunkId(chunk) == <<chunk.document_id, "_", chunk.chunk_index>>

StoredChunk(chunk) ==
    [document |-> chunk.content,
     metadata |-> [document_id |-> chunk.document_id,
                   chunk_index |-> chunk.chunk_index]]

\* collection.add: a batch that repeats an id is rejected (raises); a record
\* whose id is already stored is left as it is, or, with a client that
\* rejects stored ids, the call raises as with ok = FALSE.  It never
\* overwrites.
add_chunks(coll, chunks, ok) ==
    IF chunks = <<>> THEN [collection |-> coll, ret |-> TRUE]
    ELSE IF ~ok \/ \E i, j \in 1..Len(chunks) :
                       i # j /\ ChunkId(chunks[i]) = ChunkId(chunks[j])
    THEN [collection |-> coll, ret |-> FALSE]
    ELSE [collection |->
             [k \in DOMAIN coll \cup {ChunkId(chunks[i]) : i \in 1..Len(chunks)} |->
                 IF k \in DOMAIN coll THEN coll[k]
                 ELSE StoredChunk(chunks[CHOOSE i \in 1..Len(chunks) :
                                             ChunkId(chunks[i]) = k])],
          ret |-> TRUE]

\* collection.delete(where={"document_id": document_id})
delete_document_chunks(coll, document_id, ok) ==
    IF ok
    THEN [collection |-> [k \in {c \in DOMAIN coll :
                                    coll[c].metadata.document_id # document_id} |->
                             coll[k]],
          ret |-> TRUE]
    ELSE [collection |-> coll, ret |-> FALSE]

\* collection.query(query_texts=[query], n_results, where): the n_results
\* nearest stored chunks that pass the filter, nearest first.  n_results < 1
\* is rejected by the store (raises).
CollectionQuery(coll, nearest, n_results, document_ids) ==
    LET pass == IF document_ids # <<>>
                THEN {k \in DOMAIN coll :
                         coll[k].metadata.document_id \in Range(document_ids)}
                ELSE DOMAIN coll
    IN Take(FilterSeq(nearest, pass), n_results)

\* list.sort(key=similarity_score, reverse=True): stable
RECURSIVE InsertBySimilarity(_, _)
InsertBySimilarity(sorted, x) ==
    IF sorted = <<>> THEN <<x>>
    ELSE IF Head(sorted).similarity_score >= x.similarity_score
         THEN <<Head(sorted)>> \o InsertBySimilarity(Tail(sorted), x)
         ELSE <<x>> \o sorted

RECURSIVE SortBySimilarityDesc(_)
SortBySimilarityDesc(seq) ==
    IF seq = <<>> THEN <<>>
    ELSE InsertBySimilarity(SortBySimilarityDesc(SubSeq(seq, 1, Len(seq) - 1)),
                            seq[Len(seq)])

ChunkData(coll, k, distance) ==
    [content |-> coll[k].document,
     metadata |-> coll[k].metadata,
     similarity_score |-> 100 - distance[k],
     document_id |-> coll[k].metadata.document_id,
     chunk_index |-> coll[k].metadata.chunk_index]

RECURSIVE KeepSimilar(_, _, _, _)
KeepSimilar(coll, keys, distance, threshold) ==
    IF keys = <<>> THEN <<>>
    ELSE (IF 100 - distance[Head(keys)] >= threshold
          THEN <<ChunkData(coll, Head(keys), distance)>> ELSE <<>>)
         \o KeepSimilar(coll, Tail(keys), distance, threshold)

search_similar_unfiltered(coll, query, limit, document_ids, threshold, distance, nearest, ok) ==
    IF ~ok \/ limit < 1 THEN <<>>
    ELSE SortBySimilarityDesc(
             KeepSimilar(coll, CollectionQuery(coll, nearest, limit, document_ids),
                         distance, -100))

\* VectorStore.search_similar; [] when the store raises
search_similar(coll, query, limit, document_ids, threshold, distance, nearest, ok) ==
    IF ~ok \/ limit < 1 THEN <<>>
    ELSE SortBySimilarityDesc(
             KeepSimilar(coll, CollectionQuery(coll, nearest, limit, document_ids),
                         distance, threshold))

ContextThreshold == 60

\* ContextEngine._get_relevant_chunks: no document filter, threshold 0.6
_get_relevant_chunks(coll, query, max_chunks, distance, nearest, ok) ==
    search_similar(coll, query, max_chunks, <<>>, ContextThreshold,
                   distance, nearest, ok)

(***************************************************************************)
(* Inputs of the vector operations                                         *)
(***************************************************************************)
ChunkBatches ==
    { <<>>,
      <<DocumentChunk("d1", 0, "alpha")>>,
      <<DocumentChunk("d1", 0, "alpha v2"), DocumentChunk("d1", 1, "beta")>>,
      <<DocumentChunk("d2", 0, "gamma")>>,
      <<DocumentChunk("d2", 0, "gamma"), DocumentChunk("d2", 0, "gamma")>> }

DocumentIds == {"d1", "d2", "d3"}

DocumentFilters == {<<>>, <<"d1">>, <<"d2", "d3">>}

\* cosine distances in hundredths: similarity 0.90, 0.60, 0.59, -0.50
Distances == {10, 40, 41, 150}

Thresholds == {ContextThreshold, 70}

MaxK == 3

RECURSIVE Orderings(_)
Orderings(keys) ==
    IF keys = {} THEN {<<>>}
    ELSE UNION {{<<k>> \o rest : rest \in Orderings(keys \ {k})} : k \in keys}

\* What the store may answer: any distance per chunk, ranked nearest first.
NearestOrders(coll, distance) ==
    {o \in Orderings(DOMAIN coll) :
        \A i, j \in 1..Len(o) : i < j => distance[o[i]] <= distance[o[j]]}

AddChunks ==
    /\ last = Idle
    /\ \E chunks \in ChunkBatches, ok \in BOOLEAN :
        LET r == add_chunks(collection, chunks, ok)
        IN /\ collection' = r.collection
           /\ last' = [op |-> "add_chunks", chunks |-> chunks, ret |-> r.ret]
           /\ UNCHANGED <<nodes, edges>>
    /\ UNCHANGED others

DeleteDocumentChunks ==
    /\ last = Idle
    /\ \E document_id \in DocumentIds, ok \in BOOLEAN :
        LET r == delete_document_chunks(collection, document_id, ok)
        IN /\ collection' = r.collection
           /\ last' = [op |-> "delete_document_chunks",
                       document_id |-> document_id, ret |-> r.ret]
           /\ UNCHANGED <<nodes, edges>>
    /\ UNCHANGED others

SearchSimilar ==
    /\ last = Idle
    /\ \E query \in {Q_Acme, Q_Beta}, limit \in 0..MaxK,
          document_ids \in DocumentFilters, threshold \in Thresholds,
          distance \in [DOMAIN collection -> Distances], ok \in BOOLEAN :
        \E nearest \in NearestOrders(collection, distance) :
            /\ last' = [op |-> "search_similar", query |-> query,
                        limit |-> limit, document_ids |-> document_ids,
                        threshold |-> threshold, distance |-> distance,
                        result |-> search_similar(collection, query, limit,
                                       document_ids, threshold,
                                       distance, nearest, ok)]
            /\ UNCHANGED <<nodes, edges, collection>>
    /\ UNCHANGED others

GetRelevantChunks ==
    /\ last = Idle
    /\ \E query \in {Q_Acme, Q_Beta}, max_chunks \in 0..MaxK,
          distance \in [DOMAIN collection -> Distances], ok \in BOOLEAN :
        \E nearest \in NearestOrders(collection, distance) :
            /\ last' = [op |-> "_get_relevant_chunks", query |-> query,
                        limit |-> max_chunks, threshold |-> ContextThreshold,
                        distance |-> distance,
                        result |-> _get_relevant_chunks(collection, query,
                                       max_chunks, distance, nearest, ok)]
            /\ UNCHANGED <<nodes, edges, collection>>
    /\ UNCHANGED others

InitVector ==
    /\ nodes = NoNodes
    /\ edges = NoEdges
    /\ collection = NoChunks
    /\ last = Idle
    /\ NothingElse

NextVector ==
    AddChunks \/ DeleteDocumentChunks \/ SearchSimilar \/ GetRelevantChunks
    \/ Respond

SpecVector == InitVector /\ [][NextVector]_vars

(***************************************************************************)
(* C10: search_similar, and so the chunk retrieval of the context engine,  *)
(* returns no chunk whose similarity 1 - distance is below the threshold,  *)
(* at most k chunks, in order of descending similarity.                    *)
(***************************************************************************)
C10_ThresholdRespected ==
    last.op \in {"search_similar", "_get_relevant_chunks"} =>
        /\ \A i \in 1..Len(last.result) :
              LET k == <<last.result[i].document_id, "_",
                         last.result[i].chunk_index>>
              IN 100 - last.distance[k] >= last.threshold
        /\ Len(last.result) <= last.limit
        /\ \A i, j \in 1..Len(last.result) :
              i < j => last.distance[<<last.result[i].document_id, "_",
                                       last.result[i].chunk_index>>]
                       <= last.distance[<<last.result[j].document_id, "_",
                                          last.result[j].chunk_index>>]

\* two chunks pass, one nearer chunk-candidate is dropped for its similarity
C10_Witness ==
    /\ last.op = "_get_relevant_chunks"
    /\ Len(last.result) = 2
    /\ \E k \in DOMAIN last.distance : 100 - last.distance[k] < last.threshold
    /\ \E k \in DOMAIN last.distance : 100 - last.distance[k] = last.threshold

(***************************************************************************)
(* Generation capability (AIService over the Gemini client).  An outcome   *)
(* of model.generate_content is a response with a text (possibly empty) or *)
(* an exception.  A Python string is a sequence of its parts; the empty    *)
(* string is <<>>.                                                         *)
(***************************************************************************)
Responds(text) == [kind |-> "response", text |-> text]
Raises(error) == [kind |-> "raise", error |-> error]

\* How a call of a method ends: it returns a value or raises
Returned(value) == [raised |-> FALSE, value |-> value]
Raised(error) == [raised |-> TRUE, error |-> error]

generate_text_unchecked(outcome) ==
    IF outcome.kind = "raise"
    THEN Returned(<<"Error generating response: ", outcome.error>>)
    ELSE Returned(outcome.text)

\* AIService.generate_text: returns in every case; an empty response and an
\* exception both come back as ordinary text
generate_text(outcome) ==
    IF outcome.kind = "raise"
    THEN Returned(<<"Error generating response: ", outcome.error>>)
    ELSE IF outcome.text # <<>>
         THEN Returned(outcome.text)
         ELSE Returned(<<"I couldn't generate a response for that request.">>)

_default_intent_analysis ==
    [query_type |-> "factual", required_context |-> <<"entities", "documents">>,
     complexity |-> "simple", response_approach |-> "direct_answer",
     confidence |-> 50]

\* What the model may answer to the intent prompt: JSON objects, a JSON
\* value that is no object, and prose.
IntentJson == <<"{\"query_type\": \"strategic\", \"complexity\": \"complex\"}">>
FactualJson == <<"{\"query_type\": \"factual\"}">>
EmptyObjectJson == <<"{}">>
ArrayJson == <<"[\"entities\"]">>
ProseAnswer == <<"The query is strategic.">>

\* a JSON object is a Python dict, a JSON array a Python list
Dict(members) == [type |-> "dict", value |-> members]
List(elements) == [type |-> "list", value |-> elements]

JSONDecodeError == "JSONDecodeError"

\* json.loads on the answers above: the value a JSON text stands for, or
\* JSONDecodeError for a text that is no JSON
json_loads(text) ==
    CASE text = IntentJson ->
             Returned(Dict([query_type |-> "strategic", complexity |-> "complex"]))
      [] text = FactualJson -> Returned(Dict([query_type |-> "factual"]))
      [] text = EmptyObjectJson -> Returned(Dict(<<>>))
      [] text = ArrayJson -> Returned(List(<<"entities">>))
      [] text = ProseAnswer -> Raised(JSONDecodeError)

\* AIService.analyze_query_intent: the parsed JSON object of the response,
\* whatever its members; the default when the call raises, answers nothing,
\* answers no JSON (JSONDecodeError) or answers a JSON value without a get
\* method (AttributeError, caught by the outer except)
analyze_query_intent(outcome) ==
    IF outcome.kind = "raise" THEN Returned(_default_intent_analysis)
    ELSE IF outcome.text = <<>> THEN Returned(_default_intent_analysis)
    ELSE LET result == json_loads(outcome.text)
         IN IF result.raised THEN Returned(_default_intent_analysis)
            ELSE IF result.value.type # "dict"
                 THEN Returned(_default_intent_analysis)
                 ELSE Returned(result.value.value)

(***************************************************************************)
(* Context Assembler (ContextEngine)                                       *)
(* graph_ok[c] tells whether the c-th Graph Store call of a request        *)
(* succeeds: 1 the direct search, 2..4 the key-term searches, 5..9 the     *)
(* relationship reads of the first five entities.                          *)
(***************************************************************************)
common_words ==
    { <<"t","h","e">>, <<"a">>, <<"a","n">>, <<"a","n","d">>, <<"o","r">>,
      <<"b","u","t">>, <<"i","n">>, <<"o","n">>, <<"a","t">>, <<"t","o">>,
      <<"f","o","r">>, <<"o","f">>, <<"w","i","t","h">>, <<"b","y">>,
      <<"i","s">>, <<"a","r","e">>, <<"w","a","s">>, <<"w","e","r","e">>,
      <<"b","e">>, <<"b","e","e","n">>, <<"h","a","v","e">>, <<"h","a","s">>,
      <<"h","a","d">>, <<"d","o">>, <<"d","o","e","s">>, <<"d","i","d">>,
      <<"w","i","l","l">>, <<"w","o","u","l","d">>, <<"c","o","u","l","d">>,
      <<"s","h","o","u","l","d">>, <<"m","a","y">>, <<"m","i","g","h","t">>,
      <<"c","a","n">>, <<"w","h","a","t">>, <<"w","h","e","n">>,
      <<"w","h","e","r","e">>, <<"w","h","y">>, <<"h","o","w">>,
      <<"w","h","o">>, <<"w","h","i","c","h">>, <<"t","h","a","t">>,
      <<"t","h","i","s">>, <<"t","h","e","s","e">>, <<"t","h","o","s","e">> }

MaxKeyTerms == 5
MaxTermSearches == 3
MaxExpandedEntities == 5
MaxRelationships == 20

RECURSIVE KeyWords(_)
KeyWords(words) ==
    IF words = <<>> THEN <<>>
    ELSE (IF Head(words) \notin common_words /\ Len(Head(words)) > 2
          THEN <<Head(words)>> ELSE <<>>)
         \o KeyWords(Tail(words))

_extract_key_terms(query) == Take(KeyWords(split(toLower(query))), MaxKeyTerms)

\* list({entity.id: entity for entity in entities}.values()): a key keeps the
\* position of its first occurrence and the value of its last
RECURSIVE DedupFrom(_, _, _)
DedupFrom(entities, i, seen) ==
    IF i > Len(entities) THEN <<>>
    ELSE IF entities[i].id \in seen
         THEN DedupFrom(entities, i + 1, seen)
         ELSE LET lastAt == CHOOSE j \in i..Len(entities) :
                                /\ entities[j].id = entities[i].id
                                /\ \A k \in (j + 1)..Len(entities) :
                                       entities[k].id # entities[i].id
              IN <<entities[lastAt]>>
                 \o DedupFrom(entities, i + 1, seen \cup {entities[i].id})

DedupById_keep_all(entities) == entities

DedupById(entities) == DedupFrom(entities, 1, {})

\* lines 72-76 on one graph state; ties[c] is the store's order of equal
\* scores in the c-th Graph Store call of the request
RECURSIVE BroaderSearch(_, _, _, _, _, _, _)
BroaderSearch(ns, entities, terms, i, limit, ties, graph_ok) ==
    IF i > Len(terms) THEN entities
    ELSE BroaderSearch(ns,
             DedupById(entities \o search_entities(ns, terms[i], {}, limit,
                                                   ties[i + 1], graph_ok[i + 1])),
             terms, i + 1, limit, ties, graph_ok)

\* ContextEngine._get_relevant_entities on one graph state
_get_relevant_entities(ns, query, max_entities, ties, graph_ok) ==
    LET entities == search_entities(ns, query, {}, max_entities, ties[1],
                                    graph_ok[1])
    IN IF Len(entities) < max_entities \div 2
       THEN Take(BroaderSearch(ns, entities,
                     Take(_extract_key_terms(query), MaxTermSearches), 1,
                     max_entities \div 2, ties, graph_ok),
                 max_entities)
       ELSE Take(entities, max_entities)

\* Relationship(source_entity_id, target_entity_id, relationship_type): the
\* other fields take the model's defaults
MinimalRelationship(rel_data) ==
    Relationship(rel_data.source_entity.id, rel_data.target_entity.id,
                 rel_data.relationship.type, 100, <<>>)

RECURSIVE ExpandRelationships(_, _, _, _, _, _)
ExpandRelationships(ns, es, entities, i, ties, graph_ok) ==
    IF i > Len(entities) THEN <<>>
    ELSE LET rows == get_entity_relationships(ns, es, entities[i].id, {},
                                              ties[MaxTermSearches + 1 + i],
                                              graph_ok[MaxTermSearches + 1 + i])
         IN [j \in 1..Len(rows) |-> MinimalRelationship(rows[j])]
            \o ExpandRelationships(ns, es, entities, i + 1, ties, graph_ok)

\* ContextEngine._get_relevant_relationships on one graph state
_get_relevant_relationships(ns, es, entities, ties, graph_ok) ==
    Take(ExpandRelationships(ns, es, Take(entities, MaxExpandedEntities), 1,
                             ties, graph_ok),
         MaxRelationships)

\* ContextEngine._extract_document_ids: list(set): the elements, in no
\* defined order
_extract_document_ids(entities, relationships, semantic_chunks) ==
    UNION {Range(entities[i].source_documents) : i \in 1..Len(entities)}
    \cup UNION {Range(relationships[i].source_documents) :
                   i \in 1..Len(relationships)}
    \cup {semantic_chunks[i].metadata.document_id : i \in 1..Len(semantic_chunks)}

FallbackSummary(entities, relationships, semantic_chunks) ==
    <<"Context assembled with ", ToString(Len(entities)), " entities, ",
      ToString(Len(relationships)), " relationships, and ",
      ToString(Len(semantic_chunks)), " document chunks.">>

\* ContextEngine._generate_context_summary: the text of generate_text; the
\* locally composed sentence only if that call raises
_generate_context_summary(entities, relationships, semantic_chunks, outcome) ==
    LET summary == generate_text(outcome)
    IN IF summary.raised
       THEN FallbackSummary(entities, relationships, semantic_chunks)
       ELSE summary.value

KnowledgeContext ==
    [entities |-> <<>>, relationships |-> <<>>, documents |-> {},
     semantic_chunks |-> <<>>, context_summary |-> None]

IsKnowledgeContext(value) ==
    DOMAIN value = {"entities", "relationships", "documents",
                    "semantic_chunks", "context_summary"}

\* the try block of build_context on stores that do not change during the
\* call (the intent analysis is awaited first; its result is handed to the
\* retrievers, which do not read it)
AssembleContext(ns, es, coll, query, max_entities, max_chunks, ties, graph_ok, distance, nearest, vector_ok, intent, summary) ==
    LET entities == _get_relevant_entities(ns, query, max_entities, ties, graph_ok)
        relationships == _get_relevant_relationships(ns, es, entities, ties, graph_ok)
        semantic_chunks == _get_relevant_chunks(coll, query, max_chunks,
                                                distance, nearest, vector_ok)
    IN IF analyze_query_intent(intent).raised
       THEN Raised(analyze_query_intent(intent).error)
       ELSE Returned(
              [entities |-> entities,
               relationships |-> relationships,
               documents |-> _extract_document_ids(entities, relationships,
                                                   semantic_chunks),
               semantic_chunks |-> semantic_chunks,
               context_summary |-> _generate_context_summary(entities,
                                       relationships, semantic_chunks, summary)])

\* ContextEngine.build_context on stores that do not change during the call:
\* try ... except Exception: KnowledgeContext()
build_context(ns, es, coll, query, max_entities, max_chunks, ties, graph_ok, distance, nearest, vector_ok, intent, summary) ==
    LET context == AssembleContext(ns, es, coll, query, max_entities,
                       max_chunks, ties, graph_ok, distance, nearest,
                       vector_ok, intent, summary)
    IN IF context.raised THEN Returned(KnowledgeContext) ELSE context

(***************************************************************************)
(* Inputs of the context requests and the stores they run against          *)
(***************************************************************************)
\* five entities that all match "acme", each related to each (itself included)
DenseIds == {"e1", "e2", "e3", "e4", "e5"}

DenseNodes ==
    [id \in DenseIds |->
        Entity(id, Name_AcmeCorp, "company", None, 50 + 10 * RankIn(EntityIds, id),
               <<"d1">>)]

DenseEdges ==
    [p \in DenseIds \X DenseIds |->
        EdgeProperties(Relationship(p[1], p[2], "partners_with",
                                    60 + 5 * RankIn(EntityIds, p[2]), <<"d3">>))]

\* six entities that all match "acme", each related to every entity
WideNodes ==
    [id \in Range(EntityIds) |->
        Entity(id, Name_AcmeCorp, "company", None, 100 - 5 * RankIn(EntityIds, id),
               <<"d1">>)]

WideEdges ==
    [p \in Range(EntityIds) \X Range(EntityIds) |->
        EdgeProperties(Relationship(p[1], p[2], "partners_with",
                                    60 + 5 * RankIn(EntityIds, p[2]), <<"d3">>))]

IndexedChunks ==
    add_chunks(NoChunks, <<DocumentChunk("d1", 0, "alpha"),
                           DocumentChunk("d5", 0, "gamma")>>, TRUE).collection

ContextQueries ==
    {Q_Acme, Q_WhatIsAcme, Q_TopTenBigAcme, Q_CorpSubBeta, Q_AcmeCorp}

DefaultMaxEntities == 10
DefaultMaxChunks == 5
MaxEntitiesArg == 3
MaxChunksArg == 1

EntityLimits == 0..MaxEntitiesArg \cup {DefaultMaxEntities}
ChunkLimits == 0..MaxChunksArg \cup {DefaultMaxChunks}

GraphCalls == 1..(1 + MaxTermSearches + MaxExpandedEntities)
Failing(calls) == [c \in GraphCalls |-> c \notin calls]
GraphUp == Failing({})
GraphDown == Failing(GraphCalls)

\* the targets of relationships that share source and confidence score
AllTiedTargets(es) == UNION {TiedTargets(es, p[1]) : p \in DOMAIN es}

\* for every Graph Store call of a request an order of the equal scores:
\* the searches order entities, the relationship reads order targets
CallTies(ns, es) ==
    {[c \in GraphCalls |->
         IF c <= 1 + MaxTermSearches THEN s[c] ELSE t[c - 1 - MaxTermSearches]] :
       s \in [1..(1 + MaxTermSearches) -> TieOrdersOn(TiedEntities(ns))],
       t \in [1..MaxExpandedEntities -> TieOrdersOn(AllTiedTargets(es))]}

GraphOutcomes ==
    { GraphUp, GraphDown, Failing({1}), Failing({2}),
      Failing(2..(1 + MaxTermSearches)),
      Failing({2 + MaxTermSearches}),
      Failing((2 + MaxTermSearches)..(1 + MaxTermSearches + MaxExpandedEntities)),
      Failing({1} \cup {2 + MaxTermSearches}) }

GenerationError == "429 quota exceeded"

GenerationOutcomes ==
    { Responds(<<"Three Acme companies and one filing are relevant.">>),
      Responds(<<>>),
      Raises(GenerationError) }

IntentOutcomes ==
    { Responds(IntentJson), Responds(FactualJson), Responds(ArrayJson),
      Responds(ProseAnswer), Responds(<<>>), Raises(GenerationError) }

ContextDistances == {10, 41}

(***************************************************************************)
(* Context requests call by call                                           *)
(*                                                                         *)
(* build_context makes one store or generation call after the other, and   *)
(* the Graph Store and the Vector Index are servers that other workers and *)
(* other clients use between those calls.  A request in flight is a record *)
(* of the call's arguments and local variables, and each action below is   *)
(* one call of one request.  graph_ok, vector_ok and intent are what the   *)
(* request's calls will meet; direct, first_seen, seen_order, existed and  *)
(* reads are history: the rows of the direct search, what the searches     *)
(* returned first, the graph states that existed since the request started *)
(* and the graph states its reads saw.                                     *)
(***************************************************************************)
RequestIds == {"r1", "r2"}

NotStarted == [pc |-> "new"]

InFlight(request) == request.pc \notin {"new", "done"}

\* the entity list is final once the request is past its searches
EntitiesRetrieved(request) ==
    /\ request.pc \in {"relationships", "chunks", "summary", "done"}
    /\ ~request.raised

RequestQueries == {Q_Acme, Q_AcmeCorp, Q_Beta}

\* the local variables at the start of a call of build_context, or of
\* _get_relevant_entities called on its own
NewRequest(op, query, max_entities, max_chunks, graph_ok, vector_ok, intent) ==
    [op |-> op, pc |-> IF op = "build_context" THEN "intent" ELSE "direct",
     query |-> query, max_entities |-> max_entities, max_chunks |-> max_chunks,
     graph_ok |-> graph_ok, vector_ok |-> vector_ok, intent |-> intent,
     entities |-> <<>>, direct |-> <<>>, searched |-> 0, expanded |-> 0,
     relationships |-> <<>>, semantic_chunks |-> <<>>,
     distance |-> NoChunks, nearest |-> <<>>, summary |-> None,
     raised |-> FALSE, context |-> KnowledgeContext,
     first_seen |-> NoNodes, seen_order |-> <<>>,
     existed |-> {<<nodes, edges>>}, reads |-> {}]

\* entities[:5] of _get_relevant_relationships
ToExpand(request) == Take(request.entities, MaxExpandedEntities)

\* line 29 without a try around it and with an analysis that lets the
\* error of the generation call through
AfterIntentAnalysis_unguarded(request) ==
    IF request.intent.kind = "raise"
    THEN [request EXCEPT !.pc = "done", !.raised = TRUE]
    ELSE [request EXCEPT !.pc = "direct"]

\* line 29 inside the try of build_context: an exception of the analysis
\* ends the call in the except branch (lines 58-60), which returns
\* KnowledgeContext()
AfterIntentAnalysis(request) ==
    IF analyze_query_intent(request.intent).raised
    THEN [request EXCEPT !.pc = "done", !.context = KnowledgeContext]
    ELSE [request EXCEPT !.pc = "direct"]

\* return entities[:max_entities]; in build_context the loop over
\* entities[:5] starts then or, without entities, the chunk search follows
WithEntities(request, entities) ==
    LET kept == Take(entities, request.max_entities)
    IN [request EXCEPT
           !.entities = kept,
           !.pc = IF request.op = "_get_relevant_entities" THEN "done"
                  ELSE IF kept = <<>> THEN "chunks" ELSE "relationships"]

\* line 67 followed by line 78, the broader search left out
AfterDirectSearch_direct_only(request, rows) ==
    WithEntities([request EXCEPT !.direct = rows], rows)

\* line 67 and the test of line 70
AfterDirectSearch(request, rows) ==
    IF Len(rows) < request.max_entities \div 2
       /\ Take(_extract_key_terms(request.query), MaxTermSearches) # <<>>
    THEN [request EXCEPT !.entities = rows, !.direct = rows, !.pc = "terms"]
    ELSE WithEntities([request EXCEPT !.direct = rows], rows)

\* lines 74-76 with the entity list kept on the engine and shared by the
\* requests in flight
AfterTermSearch_shared_list(reqs, r, rows) ==
    LET request == reqs[r]
        shared == IF \E o \in DOMAIN reqs : o # r /\ InFlight(reqs[o])
                  THEN reqs[CHOOSE o \in DOMAIN reqs :
                                o # r /\ InFlight(reqs[o])].entities
                  ELSE <<>>
        merged == DedupById(shared \o request.entities \o rows)
    IN IF request.searched + 1 =
              Len(Take(_extract_key_terms(request.query), MaxTermSearches))
       THEN WithEntities([request EXCEPT !.searched = @ + 1], merged)
       ELSE [request EXCEPT !.entities = merged, !.searched = @ + 1]

\* lines 74-76 for the next key term, and line 78 after the last one
AfterTermSearch(reqs, r, rows) ==
    LET request == reqs[r]
        merged == DedupById(request.entities \o rows)
    IN IF request.searched + 1 =
              Len(Take(_extract_key_terms(request.query), MaxTermSearches))
       THEN WithEntities([request EXCEPT !.searched = @ + 1], merged)
       ELSE [request EXCEPT !.entities = merged, !.searched = @ + 1]

\* lines 96-104 with source and target exchanged
AfterRelationshipRead_reversed(request, rows) ==
    LET read == request.relationships
                    \o [j \in 1..Len(rows) |->
                           MinimalRelationship(
                               [rows[j] EXCEPT
                                    !.source_entity = rows[j].target_entity,
                                    !.target_entity = rows[j].source_entity])]
    IN IF request.expanded + 1 = Len(ToExpand(request))
       THEN [request EXCEPT !.relationships = Take(read, MaxRelationships),
                            !.expanded = @ + 1, !.pc = "chunks"]
       ELSE [request EXCEPT !.relationships = read, !.expanded = @ + 1]

\* lines 91-104 for the next entity, and after the last one line 106
\* without its slice
AfterRelationshipRead_uncapped(request, rows) ==
    LET read == request.relationships
                    \o [j \in 1..Len(rows) |-> MinimalRelationship(rows[j])]
    IN IF request.expanded + 1 = Len(ToExpand(request))
       THEN [request EXCEPT !.relationships = read,
                            !.expanded = @ + 1, !.pc = "chunks"]
       ELSE [request EXCEPT !.relationships = read, !.expanded = @ + 1]

\* lines 91-104 for the next entity, and line 106 after the last one
AfterRelationshipRead(request, rows) ==
    LET read == request.relationships
                    \o [j \in 1..Len(rows) |-> MinimalRelationship(rows[j])]
    IN IF request.expanded + 1 = Len(ToExpand(request))
       THEN [request EXCEPT !.relationships = Take(read, MaxRelationships),
                            !.expanded = @ + 1, !.pc = "chunks"]
       ELSE [request EXCEPT !.relationships = read, !.expanded = @ + 1]

\* lines 47-56: the Context is put together and returned
AfterSummary(request, summary) ==
    [request EXCEPT
        !.pc = "done",
        !.summary = summary,
        !.context =
            [entities |-> request.entities,
             relationships |-> request.relationships,
             documents |-> _extract_document_ids(request.entities,
                               request.relationships, request.semantic_chunks),
             semantic_chunks |-> request.semantic_chunks,
             context_summary |-> _generate_context_summary(request.entities,
                                     request.relationships,
                                     request.semantic_chunks, summary)]]

\* ids of rows that seen does not hold yet, in the order of rows
RECURSIVE NewIds(_, _)
NewIds(rows, seen) ==
    IF rows = <<>> THEN <<>>
    ELSE IF Head(rows).id \in seen THEN NewIds(Tail(rows), seen)
         ELSE <<Head(rows).id>> \o NewIds(Tail(rows), seen \cup {Head(rows).id})

\* history of a graph read that returned the entity rows
Observe(request, rows) ==
    [request EXCEPT
        !.reads = @ \cup {<<nodes, edges>>},
        !.seen_order = @ \o NewIds(rows, Range(@)),
        !.first_seen =
            [id \in DOMAIN @ \cup {rows[i].id : i \in 1..Len(rows)} |->
                IF id \in DOMAIN @ THEN @[id]
                ELSE rows[CHOOSE i \in 1..Len(rows) : rows[i].id = id]]]

\* a call starts on a worker that serves nothing else
Start(r, request) ==
    /\ last = Idle
    /\ requests[r].pc = "new"
    /\ requests' = [requests EXCEPT ![r] = request]
    /\ UNCHANGED <<nodes, edges, collection, last, company_data,
                   company_stores, writes>>

\* build_context(query) with the default limits
StartRequest ==
    \E r \in DOMAIN requests, query \in RequestQueries :
        Start(r, NewRequest("build_context", query, DefaultMaxEntities,
                            DefaultMaxChunks, GraphUp, TRUE,
                            Responds(IntentJson)))

\* build_context(query, max_entities, max_chunks) while the stores and the
\* generation capability answer every call
BuildContext ==
    \E r \in DOMAIN requests, query \in ContextQueries,
       max_entities \in EntityLimits, max_chunks \in ChunkLimits :
        Start(r, NewRequest("build_context", query, max_entities, max_chunks,
                            GraphUp, TRUE, Responds(IntentJson)))

\* build_context(query) while calls to the stores and to the generation
\* capability fail
BuildContextDegraded ==
    \E r \in DOMAIN requests, query \in {Q_Acme, Q_WhatIsAcme},
       graph_ok \in GraphOutcomes, vector_ok \in BOOLEAN,
       intent \in IntentOutcomes :
        Start(r, NewRequest("build_context", query, DefaultMaxEntities,
                            DefaultMaxChunks, graph_ok, vector_ok, intent))

\* _get_relevant_entities(query, intent_analysis, max_entities) on its own
GetRelevantEntities ==
    \E r \in DOMAIN requests, query \in ContextQueries,
       max_entities \in EntityLimits, graph_ok \in GraphOutcomes :
        Start(r, NewRequest("_get_relevant_entities", query, max_entities,
                            DefaultMaxChunks, graph_ok, TRUE,
                            Responds(IntentJson)))

\* line 29: the analysis is awaited and nobody reads its result
AnalyzeQueryIntent ==
    /\ \E r \in DOMAIN requests :
        /\ requests[r].pc = "intent"
        /\ requests' = [requests EXCEPT ![r] = AfterIntentAnalysis(requests[r])]
    /\ UNCHANGED <<nodes, edges, collection, last, company_data,
                   company_stores, writes>>

\* line 67: the first Graph Store call of the request
SearchByQuery ==
    /\ \E r \in DOMAIN requests, tie \in TieOrdersOn(TiedEntities(nodes)) :
        /\ requests[r].pc = "direct"
        /\ LET rows == search_entities(nodes, requests[r].query, {},
                                       requests[r].max_entities, tie,
                                       requests[r].graph_ok[1])
           IN requests' = [requests EXCEPT ![r] =
                  AfterDirectSearch(Observe(requests[r], rows), rows)]
    /\ UNCHANGED <<nodes, edges, collection, last, company_data,
                   company_stores, writes>>

\* line 74: Graph Store calls 2 to 4 of the request
SearchByKeyTerm ==
    /\ \E r \in DOMAIN requests, tie \in TieOrdersOn(TiedEntities(nodes)) :
        /\ requests[r].pc = "terms"
        /\ LET term == _extract_key_terms(requests[r].query)[requests[r].searched + 1]
               rows == search_entities(nodes, term, {},
                                       requests[r].max_entities \div 2, tie,
                                       requests[r].graph_ok[requests[r].searched + 2])
           IN requests' = [requests EXCEPT ![r] =
                  AfterTermSearch(
                      [requests EXCEPT ![r] = Observe(requests[r], rows)],
                      r, rows)]
    /\ UNCHANGED <<nodes, edges, collection, last, company_data,
                   company_stores, writes>>

\* line 91: Graph Store calls 5 to 9 of the request
ReadEntityRelationships ==
    /\ \E r \in DOMAIN requests :
        /\ requests[r].pc = "relationships"
        /\ LET entity == ToExpand(requests[r])[requests[r].expanded + 1]
           IN \E tie \in TieOrdersOn(TiedTargets(edges, entity.id)) :
               LET rows == get_entity_relationships(nodes, edges, entity.id,
                               {}, tie,
                               requests[r].graph_ok[MaxTermSearches + 2
                                                    + requests[r].expanded])
               IN requests' = [requests EXCEPT ![r] =
                      AfterRelationshipRead(
                          [requests[r] EXCEPT !.reads = @ \cup {<<nodes, edges>>}],
                          rows)]
    /\ UNCHANGED <<nodes, edges, collection, last, company_data,
                   company_stores, writes>>

\* the distances the Vector Index may report to a request: they depend on
\* the query and the stored texts alone; an index that is down reports none
RequestDistances(request) ==
    IF request.vector_ok THEN [DOMAIN collection -> ContextDistances]
    ELSE {NoChunks}

\* the rankings the Vector Index may answer with
RequestNearest(request, distance) ==
    IF request.vector_ok THEN NearestOrders(collection, distance) ELSE {<<>>}

\* line 43: the Vector Index call of the request
SearchChunks ==
    /\ \E r \in DOMAIN requests :
        /\ requests[r].pc = "chunks"
        /\ \E distance \in RequestDistances(requests[r]) :
            \E nearest \in RequestNearest(requests[r], distance) :
                requests' = [requests EXCEPT ![r] =
                    [@ EXCEPT !.pc = "summary",
                              !.distance = distance,
                              !.nearest = nearest,
                              !.semantic_chunks =
                                  _get_relevant_chunks(collection,
                                      requests[r].query, requests[r].max_chunks,
                                      distance, nearest, requests[r].vector_ok)]]
    /\ UNCHANGED <<nodes, edges, collection, last, company_data,
                   company_stores, writes>>

\* lines 47-56: the generation call for the summary, and the return
GenerateContextSummary ==
    /\ \E r \in DOMAIN requests, summary \in GenerationOutcomes :
        /\ requests[r].pc = "summary"
        /\ requests' = [requests EXCEPT ![r] = AfterSummary(requests[r], summary)]
    /\ UNCHANGED <<nodes, edges, collection, last, company_data,
                   company_stores, writes>>

\* the caller has the result, and the worker serves its next call
ReturnContext ==
    /\ \E r \in DOMAIN requests :
        /\ requests[r].pc = "done"
        /\ requests' = [requests EXCEPT ![r] = NotStarted]
    /\ UNCHANGED <<nodes, edges, collection, last, company_data,
                   company_stores, writes>>

OneRequest == [r \in {"r1"} |-> NotStarted]

InitContext ==
    /\ \/ nodes = AcmeNodes /\ edges = AcmeEdges
       \/ nodes = DenseNodes /\ edges = DenseEdges
    /\ collection = IndexedChunks
    /\ last = Idle
    /\ company_data = NoCompanyData
    /\ company_stores = NoCompanyStores
    /\ requests = OneRequest
    /\ writes = 0

NextContext ==
    \/ BuildContext \/ BuildContextDegraded \/ GetRelevantEntities
    \/ AnalyzeQueryIntent \/ SearchByQuery \/ SearchByKeyTerm
    \/ ReadEntityRelationships \/ SearchChunks \/ GenerateContextSummary
    \/ ReturnContext \/ DeleteEntity \/ Respond

SpecContext == InitContext /\ [][NextContext]_vars

\* context requests against a store with more entities than are expanded
InitExpansion ==
    /\ \/ nodes = WideNodes /\ edges = WideEdges
       \/ nodes = AcmeNodes /\ edges = AcmeEdges
    /\ collection = IndexedChunks
    /\ last = Idle
    /\ company_data = NoCompanyData
    /\ company_stores = NoCompanyStores
    /\ requests = OneRequest
    /\ writes = 0

NextExpansion ==
    \/ BuildContext \/ BuildContextDegraded
    \/ AnalyzeQueryIntent \/ SearchByQuery \/ SearchByKeyTerm
    \/ ReadEntityRelationships \/ SearchChunks \/ GenerateContextSummary
    \/ ReturnContext

SpecExpansion == InitExpansion /\ [][NextExpansion]_vars

\* the calls of build_context that have returned
Contexts ==
    {requests[r] : r \in {x \in DOMAIN requests :
        requests[x].pc = "done" /\ requests[x].op = "build_context"}}

\* the calls whose entity list is final
EntityLists ==
    {requests[r] : r \in {x \in DOMAIN requests :
        requests[x].pc # "new" /\ EntitiesRetrieved(requests[x])}}

(***************************************************************************)
(* C1: whatever calls to the Graph Store, the Vector Index and the         *)
(* generation capability fail, build_context returns a KnowledgeContext    *)
(* and raises nothing.                                                     *)
(***************************************************************************)
C1_AlwaysReturnsContext ==
    \A q \in Contexts :
        /\ ~q.raised
        /\ IsKnowledgeContext(q.context)

C1_Witness ==
    \E q \in Contexts :
        /\ q.graph_ok = GraphDown
        /\ ~q.vector_ok
        /\ q.intent.kind = "raise"
        /\ q.summary.kind = "raise"
        /\ ~q.raised

(***************************************************************************)
(* C2: when every Graph Store call and the Vector Index call fail, the     *)
(* context has no entities, no relationships, no chunks, and a summary     *)
(* that is a non-empty string, whatever the generation capability does.    *)
(***************************************************************************)
C2_EmptyContextHasSummary ==
    \A q \in Contexts :
        (q.graph_ok = GraphDown /\ ~q.vector_ok)
            => /\ ~q.raised
               /\ q.context.entities = <<>>
               /\ q.context.relationships = <<>>
               /\ q.context.semantic_chunks = <<>>
               /\ q.context.context_summary # None
               /\ q.context.context_summary # <<>>

C2_Witness ==
    \E q \in Contexts :
        /\ q.graph_ok = GraphDown
        /\ ~q.vector_ok
        /\ q.summary = Responds(<<>>)
        /\ DOMAIN nodes # {}
        /\ DOMAIN collection # {}
        /\ q.context.entities = <<>>
        /\ q.context.context_summary # <<>>

(***************************************************************************)
(* C3: when the generation call for the summary raises or answers with no  *)
(* text, the summary is the locally composed sentence "Context assembled   *)
(* with N entities, M relationships, and K document chunks.".              *)
(***************************************************************************)
C3_LocalSummaryOnGenerationFailure ==
    \A q \in Contexts :
        (q.summary.kind = "raise" \/ q.summary = Responds(<<>>))
            => q.context.context_summary =
                   FallbackSummary(q.context.entities, q.context.relationships,
                                   q.context.semantic_chunks)

(***************************************************************************)
(* C4: the documents of a context are exactly the source documents of its  *)
(* entities, the source documents the Graph Store holds for its            *)
(* relationships, and the document ids of its chunks.                      *)
(***************************************************************************)
StoredSourceDocuments(relationship) ==
    edges[<<relationship.source_entity_id,
            relationship.target_entity_id>>].source_documents

C4_DocumentsAreUnion ==
    \A q \in Contexts :
        q.context.documents =
            UNION {Range(q.context.entities[i].source_documents) :
                      i \in 1..Len(q.context.entities)}
            \cup UNION {Range(StoredSourceDocuments(q.context.relationships[i])) :
                           i \in 1..Len(q.context.relationships)}
            \cup {q.context.semantic_chunks[i].metadata.document_id :
                     i \in 1..Len(q.context.semantic_chunks)}

(***************************************************************************)
(* C8 (as claimed): for max_entities >= 1, when the direct search finds    *)
(* nothing and some key term of the query (lower-case word longer than 2   *)
(* that is no stop word) matches an entity of the store,                   *)
(* _get_relevant_entities returns between 1 and max_entities entities.     *)
(***************************************************************************)
TermMatches(term) == \E id \in DOMAIN nodes : SearchWhere(nodes[id], term, {})

C8_AnyKeyTermAnyLimit ==
    \A q \in EntityLists :
        (/\ q.graph_ok = GraphUp
         /\ q.max_entities >= 1
         /\ q.direct = <<>>
         /\ \E term \in Range(KeyWords(split(toLower(q.query)))) :
                TermMatches(term))
            => /\ q.entities # <<>>
               /\ Len(q.entities) <= q.max_entities

(***************************************************************************)
(* C8 (amended): for max_entities >= 2, when the direct search finds       *)
(* nothing and one of the first three key terms of the query matches an    *)
(* entity of the store in a search that succeeds, _get_relevant_entities   *)
(* returns between 1 and max_entities entities.                            *)
(***************************************************************************)
C8_FirstThreeTermsLimitTwo ==
    \A q \in EntityLists :
        (/\ q.max_entities >= 2
         /\ q.direct = <<>>
         /\ \E i \in 1..Len(Take(_extract_key_terms(q.query), MaxTermSearches)) :
                /\ q.graph_ok[i + 1]
                /\ TermMatches(_extract_key_terms(q.query)[i]))
            => /\ q.entities # <<>>
               /\ Len(q.entities) <= q.max_entities

C8_Witness ==
    \E q \in EntityLists :
        /\ q.op = "_get_relevant_entities"
        /\ q.pc = "done"
        /\ q.query = Q_WhatIsAcme
        /\ q.max_entities = 2
        /\ q.graph_ok = GraphUp
        /\ q.direct = <<>>
        /\ q.searched = 1
        /\ Len(q.entities) = 1

(***************************************************************************)
(* C9: a context holds at most max_entities entities, at most max_chunks   *)
(* chunks and at most 20 relationships.                                    *)
(***************************************************************************)
C9_ContextIsBounded ==
    \A q \in Contexts :
        /\ Len(q.context.entities) <= q.max_entities
        /\ Len(q.context.semantic_chunks) <= q.max_chunks
        /\ Len(q.context.relationships) <= 20

\* 25 relationships were read and 2 chunks pass the threshold
C9_Witness ==
    \E q \in Contexts :
        /\ Len(q.context.entities) = 5
        /\ q.expanded = 5
        /\ Cardinality(DOMAIN edges) = 25
        /\ Len(q.context.relationships) = 20
        /\ q.max_chunks = 1
        /\ DOMAIN q.distance = DOMAIN collection
        /\ Cardinality(DOMAIN collection) = 2
        /\ \A k \in DOMAIN q.distance : q.distance[k] = 10
        /\ Len(q.context.semantic_chunks) = 1

(***************************************************************************)
(* Chunker (DocumentProcessor._create_chunks).  A text is a sequence of    *)
(* characters; a chunk's content is the characters of ' '.join(words).     *)
(***************************************************************************)
\* Python: ' '.join(words)
RECURSIVE Join(_)
Join(words) ==
    IF words = <<>> THEN <<>>
    ELSE IF Len(words) = 1 THEN words[1]
    ELSE words[1] \o <<" ">> \o Join(Tail(words))

\* Python: seq[k:] for any integer k (negative k counts from the end)
SliceFrom(seq, k) ==
    LET start == IF k < 0
                 THEN (IF Len(seq) + k > 0 THEN Len(seq) + k ELSE 0)
                 ELSE (IF k < Len(seq) THEN k ELSE Len(seq))
    IN SubSeq(seq, start + 1, Len(seq))

\* sum(len(word) + 1 for word in words)
RECURSIVE LengthWithSpaces(_)
LengthWithSpaces(words) ==
    IF words = <<>> THEN 0
    ELSE Len(Head(words)) + 1 + LengthWithSpaces(Tail(words))

AverageWordLength == 10

OverlapWords_quotient(current_chunk, overlap) ==
    IF overlap > 0
    THEN SliceFrom(current_chunk, -(overlap \div AverageWordLength))
    ELSE <<>>

\* current_chunk[-overlap//10:] if overlap > 0 else []
\* (-overlap//10 is (-overlap)//10: the quotient is rounded towards minus
\* infinity, so the count of words kept is overlap/10 rounded up)
OverlapWords(current_chunk, overlap) ==
    IF overlap > 0
    THEN SliceFrom(current_chunk, (-overlap) \div AverageWordLength)
    ELSE <<>>

PositionedChunk(document_id, chunk_index, content, start_position, end_position) ==
    [document_id |-> document_id, chunk_index |-> chunk_index,
     content |-> content, start_position |-> start_position,
     end_position |-> end_position]

\* The chunk emitted inside the loop when current_length >= chunk_size.
LoopChunk(words, document_id, chunk_index, current_chunk) ==
    PositionedChunk(document_id, chunk_index, Join(current_chunk),
        Len(Join(Take(words, Len(words) - Len(current_chunk)))),
        Len(Join(Take(words, Len(words) - Len(current_chunk) + Len(current_chunk)))))

\* The chunk emitted after the loop for a non-empty current_chunk.
FinalChunk(text, document_id, chunk_index, current_chunk) ==
    PositionedChunk(document_id, chunk_index, Join(current_chunk),
        Len(text) - Len(Join(current_chunk)), Len(text))

\* for word in words: ...   from the i-th word on.  seeds[j] is the
\* overlap_words list that seeded the chunk after chunks[j].
RECURSIVE ChunkLoop(_, _, _, _, _, _, _, _)
ChunkLoop(words, i, document_id, chunk_size, overlap, current_chunk, chunks, seeds) ==
    IF i > Len(words)
    THEN [chunks |-> chunks, seeds |-> seeds, current_chunk |-> current_chunk]
    ELSE LET appended == Append(current_chunk, words[i])
             current_length == LengthWithSpaces(appended)
         IN IF current_length >= chunk_size
            THEN ChunkLoop(words, i + 1, document_id, chunk_size, overlap,
                     OverlapWords(appended, overlap),
                     Append(chunks, LoopChunk(words, document_id, Len(chunks), appended)),
                     Append(seeds, OverlapWords(appended, overlap)))
            ELSE ChunkLoop(words, i + 1, document_id, chunk_size, overlap,
                     appended, chunks, seeds)

ChunkRun_no_remainder(text, document_id, chunk_size, overlap) ==
    IF text = <<>>
    THEN [chunks |-> <<>>, seeds |-> <<>>]
    ELSE LET loop == ChunkLoop(split(text), 1, document_id, chunk_size,
                               overlap, <<>>, <<>>, <<>>)
         IN [chunks |-> loop.chunks, seeds |-> loop.seeds]

\* The chunk list and, beside it, the overlap_words of every chunk boundary.
ChunkRun(text, document_id, chunk_size, overlap) ==
    IF text = <<>>
    THEN [chunks |-> <<>>, seeds |-> <<>>]
    ELSE LET loop == ChunkLoop(split(text), 1, document_id, chunk_size,
                               overlap, <<>>, <<>>, <<>>)
         IN [chunks |-> IF loop.current_chunk # <<>>
                        THEN Append(loop.chunks,
                                 FinalChunk(text, document_id, Len(loop.chunks),
                                            loop.current_chunk))
                        ELSE loop.chunks,
             seeds |-> loop.seeds]

_create_chunks(text, document_id, chunk_size, overlap) ==
    ChunkRun(text, document_id, chunk_size, overlap).chunks

(***************************************************************************)
(* Inputs of the chunker                                                   *)
(***************************************************************************)
WordPool == { <<"a">>, <<"b","c">>, <<"d","e","f","g">> }

MaxWords == 4

MaxChunkSize == 6

WordLists == UNION {[1..n -> WordPool] : n \in 0..MaxWords}

\* What _clean_text hands over for a text without null bytes: words
\* separated by single spaces.
NormalizedTexts == {Join(words) : words \in WordLists}

RawTexts ==
    { <<" ">>,
      <<" ","a"," "," ","b","c">>,
      <<"d","e","f","g","\n","a"," ">>,
      <<"a","\r","\n","b","c","\f","a","\t">>,
      <<"\\x0b","b","c","\\x1c","\\xa0","d","\\u3000">>,
      <<"a"," ","\\x00"," ","b","c","\\x00">> }

Texts == NormalizedTexts \cup RawTexts

ChunkSizes == 1..MaxChunkSize

Overlaps == {0, 5, 10, 15, 20}

CreateChunks ==
    /\ last = Idle
    /\ \E text \in Texts, chunk_size \in ChunkSizes, overlap \in Overlaps :
        LET run == ChunkRun(text, "d1", chunk_size, overlap)
        IN last' = [op |-> "_create_chunks", text |-> text,
                    chunk_size |-> chunk_size, overlap |-> overlap,
                    chunks |-> _create_chunks(text, "d1", chunk_size, overlap),
                    overlap_words |-> run.seeds]
    /\ UNCHANGED <<nodes, edges, collection>>
    /\ UNCHANGED others

InitChunker ==
    /\ nodes = NoNodes
    /\ edges = NoEdges
    /\ collection = NoChunks
    /\ last = Idle
    /\ NothingElse

NextChunker == CreateChunks \/ Respond

SpecChunker == InitChunker /\ [][NextChunker]_vars

Chunked == last # Idle /\ last.op = "_create_chunks"

IsNormalized(text) == text = Join(split(text))

ChunkWords(chunk) == split(chunk.content)

\* The words a chunk list contributes once the words seeded from the
\* preceding chunk are set aside.
RECURSIVE WordsPastOverlap(_, _, _)
WordsPastOverlap(chunks, seeds, i) ==
    IF i > Len(chunks) THEN <<>>
    ELSE (IF i = 1 THEN ChunkWords(chunks[1])
          ELSE SliceFrom(ChunkWords(chunks[i]), Len(seeds[i - 1])))
         \o WordsPastOverlap(chunks, seeds, i + 1)

(***************************************************************************)
(* C11: for a non-empty normalized text, the words of the first chunk      *)
(* followed, chunk by chunk, by each later chunk's words after the overlap *)
(* words it took over from the preceding chunk are exactly the words of    *)
(* the text, the last word included.                                       *)
(***************************************************************************)
C11_ChunksCoverText ==
    (Chunked /\ last.text # <<>> /\ IsNormalized(last.text))
    => WordsPastOverlap(last.chunks, last.overlap_words, 1) = split(last.text)

\* Three chunks, words carried over at each boundary, and a last chunk that
\* adds words of its own after the ones it took over.
C11_Witness ==
    /\ Chunked
    /\ IsNormalized(last.text)
    /\ last.overlap > 0
    /\ Len(last.chunks) = 3
    /\ Len(last.overlap_words[1]) >= 1
    /\ Len(last.overlap_words[2]) >= 1
    /\ Len(ChunkWords(last.chunks[3])) > Len(last.overlap_words[2])
    /\ Len(split(last.text)) < Len(ChunkWords(last.chunks[1]))
                               + Len(ChunkWords(last.chunks[2]))
                               + Len(ChunkWords(last.chunks[3]))

LongestWord(text) ==
    LET words == split(text)
    IN IF words = <<>> THEN 0
       ELSE Len(words[CHOOSE i \in 1..Len(words) :
                         \A j \in 1..Len(words) : Len(words[j]) <= Len(words[i])])

(***************************************************************************)
(* C12: every chunk but the last is at most chunk_size characters plus     *)
(* the length of one word (here: the longest word of the text) long.       *)
(***************************************************************************)
C12_ChunkLengthBounded ==
    Chunked =>
        \A i \in 1..(Len(last.chunks) - 1) :
            Len(last.chunks[i].content) <= last.chunk_size + LongestWord(last.text)

\* The last n words of a word list, n >= 0.
LastWords(words, n) == SliceFrom(words, IF n < Len(words) THEN Len(words) - n ELSE 0)

(***************************************************************************)
(* C13 (as claimed): every chunk after the first begins with exactly the   *)
(* last overlap/10 (integer quotient) words of the preceding chunk when    *)
(* that chunk has as many words, and with overlap below 10 no words are    *)
(* shared.                                                                 *)
(***************************************************************************)
C13_QuotientOverlap ==
    Chunked =>
        \A i \in 2..Len(last.chunks) :
            LET n == last.overlap \div AverageWordLength
                preceding == ChunkWords(last.chunks[i - 1])
            IN /\ Len(preceding) >= n =>
                    /\ last.overlap_words[i - 1] = LastWords(preceding, n)
                    /\ Take(ChunkWords(last.chunks[i]), n) = LastWords(preceding, n)
               /\ last.overlap < AverageWordLength => last.overlap_words[i - 1] = <<>>

(***************************************************************************)
(* C13 (amended): every chunk after the first begins with exactly the      *)
(* last overlap/10 rounded up words of the preceding chunk when that chunk *)
(* has as many words; no words are shared when overlap is 0 and one word   *)
(* is shared when overlap is between 1 and 9.                              *)
(***************************************************************************)
C13_RoundedUpOverlap ==
    Chunked =>
        \A i \in 2..Len(last.chunks) :
            LET n == -((-last.overlap) \div AverageWordLength)
                preceding == ChunkWords(last.chunks[i - 1])
            IN /\ Len(preceding) >= n =>
                    /\ last.overlap_words[i - 1] = LastWords(preceding, n)
                    /\ Take(ChunkWords(last.chunks[i]), n) = LastWords(preceding, n)
               /\ last.overlap = 0 => last.overlap_words[i - 1] = <<>>
               /\ last.overlap \in 1..(AverageWordLength - 1) =>
                    Len(last.overlap_words[i - 1]) = 1

\* overlap 15: a three-word chunk hands its last two words to the next one.
C13_Witness ==
    /\ Chunked
    /\ last.overlap = 15
    /\ Len(last.chunks) >= 2
    /\ Len(ChunkWords(last.chunks[1])) = 3
    /\ last.overlap_words[1] = SubSeq(ChunkWords(last.chunks[1]), 2, 3)
    /\ Take(ChunkWords(last.chunks[2]), 2) = last.overlap_words[1]
    /\ last.overlap_words[1][1] # last.overlap_words[1][2]

(***************************************************************************)
(* C14: start_position and end_position never decrease as chunk_index      *)
(* increases within one document.                                          *)
(***************************************************************************)
C14_PositionsNonDecreasing ==
    Chunked =>
        \A i \in 1..(Len(last.chunks) - 1) :
            /\ last.chunks[i].start_position <= last.chunks[i + 1].start_position
            /\ last.chunks[i].end_position <= last.chunks[i + 1].end_position

(***************************************************************************)
(* C15: empty text gives no chunk, and a normalized text shorter than      *)
(* chunk_size characters gives exactly one chunk holding the whole text.   *)
(***************************************************************************)
C15_ShortTextOneChunk ==
    Chunked =>
        /\ last.text = <<>> => last.chunks = <<>>
        /\ (last.text # <<>> /\ IsNormalized(last.text)
            /\ Len(last.text) < last.chunk_size) =>
                /\ Len(last.chunks) = 1
                /\ last.chunks[1].content = last.text

C17_PairHoldsLatestUpsert ==
    [][ /\ \A p \in DOMAIN edges' :
              IF /\ last' # Idle
                 /\ last'.op = "create_relationship"
                 /\ last'.ret
                 /\ p = <<last'.relationship.source_entity_id,
                          last'.relationship.target_entity_id>>
              THEN edges'[p] = EdgeProperties(last'.relationship)
              ELSE p \in DOMAIN edges /\ edges'[p] = edges[p]
        /\ (/\ last' # Idle
            /\ last'.op = "create_relationship"
            /\ last'.ret
            /\ MatchEndpoints(nodes, last'.relationship) # {})
               => MatchEndpoints(nodes, last'.relationship) \subseteq DOMAIN edges'
      ]_vars

(***************************************************************************)
(* C18: add_chunks keeps one entry per key "{document_id}_{chunk_index}",  *)
(* and after a call that succeeds every chunk of the call is stored under  *)
(* its key with the content and metadata the call gave (a repeated key is  *)
(* overwritten by the later call).                                         *)
(***************************************************************************)
C18_LaterCallWins ==
    (last # Idle /\ last.op = "add_chunks" /\ last.ret) =>
        \A i \in 1..Len(last.chunks) :
            /\ ChunkId(last.chunks[i]) \in DOMAIN collection
            /\ collection[ChunkId(last.chunks[i])] = StoredChunk(last.chunks[i])

(***************************************************************************)
(* Path finding (KnowledgeGraph.find_paths).                               *)
(* MATCH path = (source {id})-[*1..$max_length]-(target {id}) RETURN path  *)
(* LIMIT 10.  The bounds of a variable-length pattern are integer          *)
(* literals: the server rejects the parameter $max_length when it compiles *)
(* the statement, before it reads the store, so that session.run raises   *)
(* for every source, target and max_length and the rows of the pattern are *)
(* never read.  A path is kept here as its node ids and the keys of the    *)
(* relationships it follows.                                               *)
(***************************************************************************)
PathLimit == 10

DefaultMaxLength == 3

OtherEnd(p, n) == IF p[1] = n THEN p[2] ELSE p[1]

\* path_data: the entity dicts of path.nodes with, before every node but
\* the first, the dict of the relationship that leads to it.
PathData(ns, es, path) ==
    [j \in 1..(2 * Len(path.nodes) - 1) |->
        IF j % 2 = 1
        THEN [type |-> "entity",
              id |-> path.nodes[(j + 1) \div 2],
              name |-> ns[path.nodes[(j + 1) \div 2]].name,
              entity_type |-> ns[path.nodes[(j + 1) \div 2]].entity_type]
        ELSE [type |-> "relationship",
              relationship_type |-> es[path.relationships[j \div 2]].relationship_type,
              properties |-> NoProperties]]

\* The body of the try block: session.run raises, because the driver does
\* not reach the server (ok is false) or because the server rejects the
\* statement.
find_paths_rows(ns, es, source_entity_id, target_entity_id, max_length, ok) ==
    IF ~ok THEN Raised("ServiceUnavailable") ELSE Raised("CypherSyntaxError")

\* find_paths without its except branch
find_paths_unhandled(ns, es, source_entity_id, target_entity_id, max_length, ok) ==
    find_paths_rows(ns, es, source_entity_id, target_entity_id, max_length, ok)

\* KnowledgeGraph.find_paths: except Exception: return []
find_paths(ns, es, source_entity_id, target_entity_id, max_length, ok) ==
    LET body == find_paths_rows(ns, es, source_entity_id, target_entity_id,
                                max_length, ok)
    IN IF body.raised THEN Returned(<<>>) ELSE body

(***************************************************************************)
(* Inputs of path finding                                                  *)
(***************************************************************************)
\* e4 is in none of the stores below
PathIds == {"e1", "e2", "e3", "e4"}

\* e1 -> e2 -> e3
ChainEdges ==
    [p \in {<<"e1", "e2">>, <<"e2", "e3">>} |-> AcmeEdges[p]]

\* three entities, each related to each of the others in both directions
MeshIds == {"e1", "e2", "e3"}

MeshNodes == [id \in MeshIds |-> DenseNodes[id]]

MeshEdges ==
    [p \in {q \in MeshIds \X MeshIds : q[1] # q[2]} |-> DenseEdges[p]]

FindPaths ==
    /\ last = Idle
    /\ \E source_entity_id \in PathIds, target_entity_id \in PathIds,
          max_length \in 0..DefaultMaxLength, ok \in BOOLEAN :
        last' = [op |-> "find_paths",
                 source_entity_id |-> source_entity_id,
                 target_entity_id |-> target_entity_id,
                 max_length |-> max_length, ok |-> ok,
                 call |-> find_paths(nodes, edges, source_entity_id,
                                     target_entity_id, max_length, ok)]
    /\ UNCHANGED <<nodes, edges, collection>>
    /\ UNCHANGED others

InitPaths ==
    /\ \/ nodes = AcmeNodes /\ edges = ChainEdges
       \/ nodes = AcmeNodes /\ edges = AcmeEdges
       \/ nodes = PeerNodes /\ edges = PeerEdges
       \/ nodes = MeshNodes /\ edges = MeshEdges
    /\ collection = NoChunks
    /\ last = Idle
    /\ NothingElse

NextPaths == FindPaths \/ DeleteEntity \/ Respond

SpecPaths == InitPaths /\ [][NextPaths]_vars

PathsFound == last # Idle /\ last.op = "find_paths"

EntitiesOf(path_data) == [i \in 1..((Len(path_data) + 1) \div 2) |-> path_data[2 * i - 1]]

RelationshipsOf(path_data) == [i \in 1..(Len(path_data) \div 2) |-> path_data[2 * i]]

\* The entities within hops relationships of the entities in from, the
\* direction of a relationship set aside.
RECURSIVE Within(_, _, _)
Within(es, from, hops) ==
    IF hops <= 0 THEN from
    ELSE Within(es,
             from \cup UNION {{p[1], p[2]} : p \in {q \in DOMAIN es :
                                                       q[1] \in from \/ q[2] \in from}},
             hops - 1)

(***************************************************************************)
(* C19: find_paths never raises; it returns at most 10 paths, each an      *)
(* alternating entity / relationship sequence from the source entity to    *)
(* the target entity with 1 to max_length relationships, and the empty     *)
(* list when the target is not within max_length hops or the store fails.  *)
(***************************************************************************)
C19_PathsConnectWithinBound ==
    PathsFound =>
        /\ ~last.call.raised
        /\ Len(last.call.value) <= PathLimit
        /\ \A i \in 1..Len(last.call.value) :
              LET path_data == last.call.value[i]
              IN /\ Len(path_data) % 2 = 1
                 /\ \A j \in 1..Len(path_data) :
                        path_data[j].type = IF j % 2 = 1 THEN "entity"
                                                          ELSE "relationship"
                 /\ path_data[1].id = last.source_entity_id
                 /\ path_data[Len(path_data)].id = last.target_entity_id
                 /\ Len(RelationshipsOf(path_data)) \in 1..last.max_length
        /\ ( \/ ~last.ok
             \/ last.max_length < 1
             \/ last.target_entity_id
                    \notin Within(edges, {last.source_entity_id}, last.max_length) )
           => last.call.value = <<>>

\* The store failed during a call for two stored entities that a
\* relationship connects, and the call returned the empty list.
C19_Witness ==
    /\ PathsFound
    /\ ~last.ok
    /\ last.max_length = DefaultMaxLength
    /\ last.source_entity_id # last.target_entity_id
    /\ <<last.source_entity_id, last.target_entity_id>> \in DOMAIN edges
    /\ ~last.call.raised
    /\ last.call.value = <<>>

\* The paths from the end of path to target that pass no entity twice and
\* make path at most max_length relationships long, a relationship
\* followed in either direction.
RECURSIVE SimplePathsFrom(_, _, _, _)
SimplePathsFrom(es, target, max_length, path) ==
    IF Len(path.relationships) >= max_length THEN {}
    ELSE LET n == path.nodes[Len(path.nodes)]
             longer == {[nodes |-> Append(path.nodes, OtherEnd(p, n)),
                         relationships |-> Append(path.relationships, p)] :
                           p \in {q \in IncidentEdges(es, n) :
                                     OtherEnd(q, n) \notin Range(path.nodes)}}
         IN {l \in longer : l.nodes[Len(l.nodes)] = target}
            \cup UNION {SimplePathsFrom(es, target, max_length, l) : l \in longer}

\* The paths between two entities that pass no entity twice.
SimplePaths(ns, es, source_entity_id, target_entity_id, max_length) ==
    IF source_entity_id \in DOMAIN ns /\ target_entity_id \in DOMAIN ns
    THEN SimplePathsFrom(es, target_entity_id, max_length,
                         [nodes |-> <<source_entity_id>>, relationships |-> <<>>])
    ELSE {}

(***************************************************************************)
(* C20: when the store answers and at most 10 simple paths of 1 to         *)
(* max_length relationships connect the two entities, find_paths returns   *)
(* exactly those paths, and none that passes an entity twice.              *)
(***************************************************************************)
C20_ExactlySimplePaths ==
    (PathsFound /\ last.ok
     /\ Cardinality(SimplePaths(nodes, edges, last.source_entity_id,
                       last.target_entity_id, last.max_length)) <= PathLimit)
    => LET simple == SimplePaths(nodes, edges, last.source_entity_id,
                                 last.target_entity_id, last.max_length)
       IN /\ Range(last.call.value) = {PathData(nodes, edges, path) : path \in simple}
          /\ Len(last.call.value) = Cardinality(simple)
          /\ \A i \in 1..Len(last.call.value) :
                LET entities == EntitiesOf(last.call.value[i])
                IN \A j, k \in 1..Len(entities) :
                      j # k => entities[j].id # entities[k].id

(***************************************************************************)
(* C27: every chunk of a normalized text t has                             *)
(* 0 <= start_position <= end_position <= len(t) and its content is the    *)
(* slice t[start_position:end_position].                                   *)
(***************************************************************************)
C27_ContentIsTextSlice ==
    (Chunked /\ IsNormalized(last.text)) =>
        \A i \in 1..Len(last.chunks) :
            LET chunk == last.chunks[i]
            IN /\ 0 <= chunk.start_position
               /\ chunk.start_position <= chunk.end_position
               /\ chunk.end_position <= Len(last.text)
               /\ chunk.content =
                    SubSeq(last.text, chunk.start_position + 1, chunk.end_position)

(***************************************************************************)
(* Entity retrieval and relationship expansion: order and duplicates       *)
(***************************************************************************)

\* fewer direct rows than max_entities // 2: the test of line 70
FallbackTaken(q) == Len(q.direct) < q.max_entities \div 2

ByConfidenceDescending(entities) ==
    \A i \in 1..(Len(entities) - 1) :
        entities[i].confidence_score >= entities[i + 1].confidence_score

MatchesQueryOrTerm(e, query, terms) ==
    \/ SearchWhere(e, query, {})
    \/ \E i \in 1..Len(terms) : SearchWhere(e, terms[i], {})

(***************************************************************************)
(* C22: the entity list of _get_relevant_entities (and of the Context) is  *)
(* ordered by confidence score descending for every query and every        *)
(* max_entities, also when key-term searches contribute, and holds no      *)
(* entity that matches neither the query nor a key term.                   *)
(***************************************************************************)
C22_OrderedByConfidence ==
    \A q \in EntityLists :
        /\ ByConfidenceDescending(q.entities)
        /\ \A i \in 1..Len(q.entities) :
               MatchesQueryOrTerm(q.entities[i], q.query,
                                  _extract_key_terms(q.query))

(***************************************************************************)
(* C22 (amended): the entity list is ordered by confidence score           *)
(* descending whenever the direct search returned at least                 *)
(* max_entities // 2 entities, so that no key-term search ran; when        *)
(* key-term searches ran, the direct search's entities come first; in      *)
(* every case each entity matches the query or one of the first three      *)
(* key terms.                                                              *)
(***************************************************************************)
C22_OrderedWithoutFallback ==
    \A q \in EntityLists :
        /\ ~FallbackTaken(q) => ByConfidenceDescending(q.entities)
        /\ FallbackTaken(q) =>
               /\ Len(q.entities) >= Len(Take(q.direct, q.max_entities))
               /\ \A i \in 1..Len(Take(q.direct, q.max_entities)) :
                      q.entities[i].id = q.direct[i].id
        /\ \A i \in 1..Len(q.entities) :
               MatchesQueryOrTerm(q.entities[i], q.query,
                   Take(_extract_key_terms(q.query), MaxTermSearches))

\* a direct search that filled the list with entities of different scores,
\* leaving entities of the store out
C22_Witness ==
    \E q \in EntityLists :
        /\ q.op = "_get_relevant_entities"
        /\ q.pc = "done"
        /\ ~FallbackTaken(q)
        /\ Len(q.entities) >= 3
        /\ q.entities[1].confidence_score > q.entities[2].confidence_score
        /\ Cardinality(DOMAIN nodes) > Len(q.entities)

Triple(r) == <<r.source_entity_id, r.target_entity_id, r.relationship_type>>

\* the entities of a context that are expanded
ExpandedFrom(q) == Take(q.context.entities, MaxExpandedEntities)

EntityRank(q, id) ==
    CHOOSE i \in 1..Len(ExpandedFrom(q)) : ExpandedFrom(q)[i].id = id

\* the stored relationships going out of the entities that are expanded
Outgoing(q) ==
    {p \in DOMAIN edges :
        \E i \in 1..Len(ExpandedFrom(q)) : ExpandedFrom(q)[i].id = p[1]}

StoredTriple(p) == <<p[1], p[2], edges[p].relationship_type>>

\* p is read before p2: an earlier entity, or the same entity and a higher
\* confidence score
ReadBefore(q, p, p2) ==
    \/ EntityRank(q, p[1]) < EntityRank(q, p2[1])
    \/ p[1] = p2[1] /\ edges[p].confidence_score > edges[p2].confidence_score

Pair(r) == <<r.source_entity_id, r.target_entity_id>>

(***************************************************************************)
(* C23: every relationship of a Context has one of the first 5 entities    *)
(* of the Context as its source, and the relationship list is the first    *)
(* 20 elements of the concatenation, in entity rank order, of the          *)
(* outgoing relationships of those entities as the Graph Store returns     *)
(* them (confidence descending per entity).                                *)
(***************************************************************************)
C23_RelationshipsOfFirstFive ==
    \A q \in Contexts :
        LET Expanded == q.context.relationships
        IN /\ \A i \in 1..Len(Expanded) :
                  \E j \in 1..Len(ExpandedFrom(q)) :
                      ExpandedFrom(q)[j].id = Expanded[i].source_entity_id
           /\ q.graph_ok = GraphUp =>
                  /\ \A i \in 1..Len(Expanded) :
                         /\ Pair(Expanded[i]) \in Outgoing(q)
                         /\ Triple(Expanded[i]) = StoredTriple(Pair(Expanded[i]))
                  /\ \A i, j \in 1..Len(Expanded) :
                         i < j => ~ReadBefore(q, Pair(Expanded[j]), Pair(Expanded[i]))
                  /\ \A p \in Outgoing(q) :
                         (\A i \in 1..Len(Expanded) : Pair(Expanded[i]) # p)
                             => \A i \in 1..Len(Expanded) :
                                    ~ReadBefore(q, p, Pair(Expanded[i]))
                  /\ Len(Expanded) =
                         IF Cardinality(Outgoing(q)) < MaxRelationships
                         THEN Cardinality(Outgoing(q)) ELSE MaxRelationships

\* six entities were retrieved, the sixth, which has relationships in the
\* store, was not expanded, and 20 of the 30 relationships read were kept
C23_Witness ==
    \E q \in Contexts :
        /\ q.graph_ok = GraphUp
        /\ Len(q.context.entities) = 6
        /\ q.expanded = 5
        /\ \E p \in DOMAIN edges : p[1] = q.context.entities[6].id
        /\ Cardinality(Outgoing(q)) = 30
        /\ Len(q.context.relationships) = 20
        /\ q.context.relationships[1].source_entity_id
               = q.context.relationships[6].source_entity_id
        /\ q.context.relationships[6].source_entity_id
               # q.context.relationships[7].source_entity_id

(***************************************************************************)
(* C24: the relationship list produced for an entity list of               *)
(* _get_relevant_entities, in any Graph Store state, holds no two          *)
(* relationships with the same (source, target, relationship_type).        *)
(***************************************************************************)
C24_NoDuplicateRelationships ==
    \A q \in Contexts :
        \A i, j \in 1..Len(q.context.relationships) :
            Triple(q.context.relationships[i]) = Triple(q.context.relationships[j])
                => i = j

\* an entity found by the direct search and again by a key-term search was
\* expanded, after an entity had been deleted from the store
C24_Witness ==
    \E q \in Contexts :
        /\ q.graph_ok = GraphUp
        /\ FallbackTaken(q)
        /\ q.direct # <<>>
        /\ q.searched >= 1
        /\ \E i \in 1..q.searched :
               SearchWhere(nodes[q.direct[1].id],
                           _extract_key_terms(q.query)[i], {})
        /\ \E i \in 1..Len(q.context.relationships) :
               q.context.relationships[i].source_entity_id = q.direct[1].id
        /\ Len(q.context.relationships) >= 2
        /\ DOMAIN nodes \in {DenseIds \ {id} : id \in DenseIds}

(***************************************************************************)
(* Document processing                                                     *)
(***************************************************************************)

\* models/document.py: the values of the two enumerations
DocumentStatus == {"uploaded", "processing", "processed", "failed", "indexed"}
DocumentType == {"pdf", "docx", "txt", "csv", "xlsx", "pptx"}

\* DocumentProcessor.__init__: the keys of self.supported_types
supported_types == {".pdf", ".docx", ".txt", ".csv", ".xlsx", ".pptx"}

\* Document checks document_type against the enumeration when the document
\* is constructed and not when the field is assigned (the model sets no
\* validate_assignment): the value a caller assigned afterwards
AssignedTypes == {".txt"}

\* document_type.value of the documents handed to process_document
DocumentTypeValues == DocumentType \cup AssignedTypes

\* _create_chunks is called with its default chunk_size and overlap
DefaultChunkSize == 1000
DefaultOverlap == 200

\* a Document that was not processed yet
Document(id, document_type) ==
    [id |-> id, document_type |-> document_type, status |-> "uploaded",
     extracted_text |-> None, chunk_count |-> None,
     processing_errors |-> <<>>, vectorized |-> FALSE]

RECURSIVE lstrip(_)
lstrip(text) ==
    IF text # <<>> /\ Head(text) \in Whitespace THEN lstrip(Tail(text)) ELSE text

RECURSIVE rstrip(_)
rstrip(text) ==
    IF text # <<>> /\ text[Len(text)] \in Whitespace
    THEN rstrip(SubSeq(text, 1, Len(text) - 1))
    ELSE text

strip(text) == rstrip(lstrip(text))

replace(text, old, new) ==
    [i \in 1..Len(text) |-> IF text[i] = old THEN new ELSE text[i]]

\* Python: text.replace(old, '') for one character
remove(text, old) == SelectSeq(text, LAMBDA c : c # old)

\* DocumentProcessor._clean_text.  ' '.join(text.split()) leaves no line
\* break, carriage return or tab, so of the replacements that follow only
\* the removal of the null bytes finds anything (replace('\n\n\n', '\n\n')
\* finds no line break at all); what it removes may leave two spaces side
\* by side, or a space at an end for strip() to take.
_clean_text(text) ==
    IF text = <<>> THEN <<>>
    ELSE strip(replace(replace(remove(Join(split(text)), "\\x00"),
                               "\r", "\n"),
                       "\t", " "))

ValueError == "Unsupported document type"
ExtractionError == "extraction failed"

\* the body of process_document once the extractor was looked up
ExtractAndChunk(document, extraction, statuses) ==
    IF extraction.raised
    THEN [document |-> [document EXCEPT
                            !.status = "failed",
                            !.processing_errors = Append(@, extraction.error)],
          call |-> Raised(extraction.error),
          statuses |-> statuses \o <<"failed">>]
    ELSE LET cleaned_text == _clean_text(extraction.value)
             chunks == _create_chunks(cleaned_text, document.id,
                                      DefaultChunkSize, DefaultOverlap)
             processed == [document EXCEPT
                               !.status = "processed",
                               !.extracted_text = cleaned_text,
                               !.chunk_count = Len(chunks)]
         IN [document |-> processed,
             call |-> Returned(<<processed, chunks>>),
             statuses |-> statuses \o <<"processed">>]

\* DocumentProcessor.process_document: the document as the call leaves it,
\* what the call returns or raises, and the statuses assigned in order.
\* extraction is what the extractor of the file does.
process_document(document, extraction) ==
    IF document.document_type \in supported_types
    THEN ExtractAndChunk(document, extraction, <<"processing">>)
    ELSE [document |-> [document EXCEPT
                            !.status = "failed",
                            !.processing_errors = Append(@, ValueError)],
          call |-> Raised(ValueError),
          statuses |-> <<"processing", "failed">>]

NotCalled == [called |-> FALSE, ret |-> FALSE]

\* process_document_background: the document and the Vector Index as the
\* task leaves them. extract_entities_and_relationships catches its own
\* errors and its result is only looped over.
process_document_background(document, coll, extraction, vector_ok) ==
    LET processed == process_document(document, extraction)
    IN IF processed.call.raised
       THEN [document |-> [processed.document EXCEPT
                               !.status = "failed",
                               !.processing_errors = Append(@, processed.call.error)],
             collection |-> coll,
             add_chunks |-> NotCalled]
       ELSE LET chunks == processed.call.value[2]
                stored == add_chunks(coll, chunks, vector_ok)
            IN IF chunks # <<>>
               THEN [document |-> [processed.document EXCEPT
                                       !.vectorized = TRUE,
                                       !.status = "indexed"],
                     collection |-> stored.collection,
                     add_chunks |-> [called |-> TRUE, ret |-> stored.ret]]
               ELSE [document |-> [processed.document EXCEPT !.status = "indexed"],
                     collection |-> coll,
                     add_chunks |-> NotCalled]

\* what an extractor does with a file
Extractions ==
    {Returned(text) : text \in Texts} \cup {Raised(ExtractionError)}

ProcessDocument ==
    /\ last = Idle
    /\ \E document_type \in DocumentTypeValues, extraction \in Extractions :
        /\ last' = [op |-> "process_document",
                    document_type |-> document_type,
                    extraction |-> extraction,
                    result |-> process_document(Document("d1", document_type),
                                                extraction)]
        /\ UNCHANGED <<nodes, edges, collection>>
    /\ UNCHANGED others

ProcessDocumentBackground ==
    /\ last = Idle
    /\ \E document_type \in DocumentTypeValues, extraction \in Extractions,
          vector_ok \in BOOLEAN :
        LET r == process_document_background(Document("d1", document_type),
                                             collection, extraction, vector_ok)
        IN /\ collection' = r.collection
           /\ last' = [op |-> "process_document_background",
                       document_type |-> document_type,
                       extraction |-> extraction,
                       vector_ok |-> vector_ok,
                       document |-> r.document,
                       add_chunks |-> r.add_chunks]
           /\ UNCHANGED <<nodes, edges>>
    /\ UNCHANGED others

InitDocuments ==
    /\ nodes = NoNodes
    /\ edges = NoEdges
    /\ collection = NoChunks
    /\ last = Idle
    /\ NothingElse

NextDocuments == ProcessDocument \/ ProcessDocumentBackground \/ Respond

SpecDocuments == InitDocuments /\ [][NextDocuments]_vars

(***************************************************************************)
(* C28: for a document of one of the six supported types whose extractor   *)
(* succeeds, process_document goes from uploaded through processing to     *)
(* processed and returns with chunk_count equal to the number of chunks    *)
(* returned; failed (error appended, exception raised again) is reached    *)
(* only when extraction or chunking raises; the document is never left     *)
(* in processing.                                                          *)
(***************************************************************************)
C28_SupportedTypeIsProcessed ==
    last.op = "process_document" =>
        /\ (last.document_type \in DocumentType /\ ~last.extraction.raised) =>
               /\ last.result.statuses = <<"processing", "processed">>
               /\ ~last.result.call.raised
               /\ last.result.document.chunk_count =
                      Len(last.result.call.value[2])
        /\ last.result.document.status = "failed" =>
               /\ last.extraction.raised
               /\ last.result.call.raised
               /\ last.result.document.processing_errors =
                      <<last.result.call.error>>
        /\ last.result.document.status # "processing"

CompanySetups ==
    { [name |-> "Acme", industry |-> "retail", description |-> "shops",
       key_processes |-> <<"sales">>, goals |-> <<"grow">>],
      [name |-> "Beta", industry |-> "retail", description |-> "labs",
       key_processes |-> <<>>, goals |-> <<"grow">>],
      [name |-> "", industry |-> "retail", description |-> "",
       key_processes |-> <<>>, goals |-> <<>>] }

\* what model.generate_content does: GOOGLE_API_KEY may be unset
NoApiKey == [kind |-> "no_api_key"]
RootGenerationOutcomes ==
    {NoApiKey, Responds("A retailer with shops."), Raises(GenerationError)}

\* create_knowledge_graph, run in one write transaction: MERGE on name and
\* industry takes no Company node that lacks the industry; the statements
\* for processes and goals bind every Company node of the name
create_knowledge_graph(stores, company_name, industry, processes, goals) ==
    LET companies == stores.companies
                        \cup {[name |-> company_name, industry |-> industry]}
        named == {c \in companies : c.name = company_name}
    IN [stores EXCEPT
           !.companies = companies,
           !.has_process = @ \cup {<<c, processes[i]>> :
                                      c \in named, i \in 1..Len(processes)},
           !.has_goal = @ \cup {<<c, goals[i]>> :
                                   c \in named, i \in 1..Len(goals)}]

\* company_data.update({...}) of setup_company
UpdateCompanyData(data, setup) ==
    [name |-> setup.name, industry |-> setup.industry,
     description |-> setup.description,
     business_processes |-> setup.key_processes, goals |-> setup.goals,
     documents |-> data.documents, context_summary |-> data.context_summary,
     key_metrics |-> data.key_metrics]

\* setup_company: the profile is updated first; a graph write that raises
\* is rolled back and the exception leaves the handler (status 500), and so
\* does an exception of the generation call
setup_company(data, stores, setup, graph_ok, generation) ==
    LET updated == UpdateCompanyData(data, setup)
        written == create_knowledge_graph(stores, setup.name, setup.industry,
                                          setup.key_processes, setup.goals)
    IN IF ~graph_ok
       THEN [company_data |-> updated, company_stores |-> stores, status |-> 500]
       ELSE IF generation = NoApiKey
       THEN [company_data |-> updated, company_stores |-> written, status |-> 200]
       ELSE IF generation.kind = "raise"
       THEN [company_data |-> updated, company_stores |-> written, status |-> 500]
       ELSE [company_data |-> [updated EXCEPT !.context_summary = generation.text],
             company_stores |-> written, status |-> 200]

\* if not company_data["name"]: raise HTTPException(status_code=400, ...)
CompanyConfigured(data) == data.name # ""

allowed_types == {".pdf", ".docx", ".txt", ".md"}
FileExtensions == {".pdf", ".md", ".csv"}

\* how far the processing of an uploaded file gets before something raises
UploadOutcomes == {"extraction_raises", "index_raises", "graph_raises", "stored"}

MaxDocuments == 2

\* add_document_to_knowledge_graph: the Document node and its company (the
\* extracted entities are not part of the profile and are left out).
\* MERGE (c:Company {name}) binds every Company node of the name and, when
\* there is none, creates one that has a name and no industry.
add_document_to_knowledge_graph(stores, document_id, company_name) ==
    LET companies ==
            IF \E c \in stores.companies : c.name = company_name
            THEN stores.companies
            ELSE stores.companies \cup {[name |-> company_name]}
    IN [stores EXCEPT
           !.companies = companies,
           !.has_document = @ \cup {<<c, document_id>> :
                                       c \in {d \in companies : d.name = company_name}}]

\* upload_document: document_id stands for the fresh uuid4
upload_document(data, stores, file_ext, document_id, outcome) ==
    IF ~CompanyConfigured(data) \/ file_ext \notin allowed_types
    THEN [company_data |-> data, company_stores |-> stores, status |-> 400]
    ELSE IF outcome \in {"extraction_raises", "index_raises"}
    THEN [company_data |-> data, company_stores |-> stores, status |-> 500]
    ELSE LET indexed == [stores EXCEPT !.collection = @ \cup {document_id}]
         IN IF outcome = "graph_raises"
            THEN [company_data |-> data, company_stores |-> indexed,
                  status |-> 500]
            ELSE [company_data |->
                      [data EXCEPT !.documents = Append(@, document_id)],
                  company_stores |->
                      add_document_to_knowledge_graph(indexed, document_id,
                                                      data.name),
                  status |-> 200]

\* query_context, query_knowledge_graph_endpoint, get_knowledge_graph_stats
\* and generate_business_content: the guard, then reads of the stores and a
\* generation call that answer or raise
ReadEndpoints ==
    {"query_context", "query_knowledge_graph_endpoint",
     "get_knowledge_graph_stats", "generate_business_content"}

read_endpoint(data, ok) ==
    IF ~CompanyConfigured(data) THEN 400 ELSE IF ok THEN 200 ELSE 500

\* health_check
health_check(data) ==
    [company_configured |-> CompanyConfigured(data),
     documents_loaded |-> Len(data.documents)]

SetupCompany ==
    /\ last = Idle
    /\ \E setup \in CompanySetups, graph_ok \in BOOLEAN,
          generation \in RootGenerationOutcomes :
        LET r == setup_company(company_data, company_stores, setup, graph_ok,
                               generation)
        IN /\ company_data' = r.company_data
           /\ company_stores' = r.company_stores
           /\ last' = [op |-> "setup_company", setup |-> setup,
                       graph_ok |-> graph_ok, generation |-> generation,
                       status |-> r.status]
    /\ UNCHANGED <<nodes, edges, collection, requests, writes>>

UploadDocument ==
    /\ last = Idle
    /\ Cardinality(company_stores.collection) < MaxDocuments
    /\ \E file_ext \in FileExtensions, outcome \in UploadOutcomes :
        LET r == upload_document(company_data, company_stores, file_ext,
                                 Cardinality(company_stores.collection) + 1,
                                 outcome)
        IN /\ company_data' = r.company_data
           /\ company_stores' = r.company_stores
           /\ last' = [op |-> "upload_document", file_ext |-> file_ext,
                       outcome |-> outcome, status |-> r.status]
    /\ UNCHANGED <<nodes, edges, collection, requests, writes>>

ReadEndpoint ==
    /\ last = Idle
    /\ \E endpoint \in ReadEndpoints, ok \in BOOLEAN :
        last' = [op |-> endpoint, ok |-> ok,
                 status |-> read_endpoint(company_data, ok)]
    /\ UNCHANGED <<nodes, edges, collection, company_data, company_stores,
                   requests, writes>>

HealthCheck ==
    /\ last = Idle
    /\ last' = [op |-> "health_check", status |-> 200,
                body |-> health_check(company_data)]
    /\ UNCHANGED <<nodes, edges, collection, company_data, company_stores,
                   requests, writes>>

InitCompany ==
    /\ nodes = NoNodes
    /\ edges = NoEdges
    /\ collection = NoChunks
    /\ last = Idle
    /\ NothingElse

NextCompany ==
    SetupCompany \/ UploadDocument \/ ReadEndpoint \/ HealthCheck \/ Respond

SpecCompany == InitCompany /\ [][NextCompany]_vars

GuardedEndpoints == ReadEndpoints \cup {"upload_document"}

(***************************************************************************)
(* C30: in the root deployment variant the company is configured only      *)
(* after a setup-company call has completed successfully: until then the   *)
(* five guarded endpoints answer 400, and a setup-company call that fails  *)
(* (the graph write or the generation call raises) leaves the company      *)
(* profile unconfigured.                                                   *)
(***************************************************************************)
C30_ConfiguredOnlyBySuccessfulSetup ==
    [][ /\ (~CompanyConfigured(company_data) /\ CompanyConfigured(company_data'))
            => (last'.op = "setup_company" /\ last'.status = 200)
        /\ (last = Idle /\ last'.op \in GuardedEndpoints
                /\ ~CompanyConfigured(company_data))
            => last'.status = 400 ]_vars

(***************************************************************************)
(* Two context requests served at the same time                            *)
(***************************************************************************)
\* two requests and no ingestion
InitReaders ==
    /\ nodes = AcmeNodes
    /\ edges = AcmeEdges
    /\ collection = IndexedChunks
    /\ last = Idle
    /\ company_data = NoCompanyData
    /\ company_stores = NoCompanyStores
    /\ requests = [r \in RequestIds |-> NotStarted]
    /\ writes = 0

NextReaders ==
    \/ StartRequest
    \/ AnalyzeQueryIntent
    \/ SearchByQuery
    \/ SearchByKeyTerm
    \/ ReadEntityRelationships
    \/ SearchChunks
    \/ GenerateContextSummary

SpecReaders == InitReaders /\ [][NextReaders]_vars

\* the Context the request would get from one uninterrupted call on the
\* stores as they are, the store ordering equal scores as ties says
Alone(request, ties) ==
    build_context(nodes, edges, collection, request.query,
                  request.max_entities, request.max_chunks, ties,
                  GraphUp, request.distance, request.nearest, TRUE,
                  Responds(IntentJson), request.summary).value

(***************************************************************************)
(* C25: two build_context requests that run concurrently on stores no      *)
(* ingestion modifies each return, under every interleaving of their       *)
(* calls, the entities, relationships, chunks and documents they would     *)
(* return alone, and neither changes the Graph Store or the Vector Index.  *)
(***************************************************************************)
C25_ConcurrentRequestsIndependent ==
    /\ nodes = AcmeNodes
    /\ edges = AcmeEdges
    /\ collection = IndexedChunks
    /\ \A r \in DOMAIN requests :
           requests[r].pc = "done" =>
               \E ties \in CallTies(nodes, edges) :
                   /\ requests[r].context.entities =
                          Alone(requests[r], ties).entities
                   /\ requests[r].context.relationships =
                          Alone(requests[r], ties).relationships
                   /\ requests[r].context.semantic_chunks =
                          Alone(requests[r], ties).semantic_chunks
                   /\ requests[r].context.documents =
                          Alone(requests[r], ties).documents

\* a request with key-term searches returned after its calls were
\* interleaved with those of a request for another query, still in flight
C25_Witness ==
    /\ requests["r1"].pc = "done"
    /\ requests["r1"].query = Q_AcmeCorp
    /\ requests["r1"].searched = 2
    /\ Len(requests["r1"].context.relationships) = 3
    /\ InFlight(requests["r2"])
    /\ requests["r2"].query = Q_Beta
    /\ requests["r2"].pc = "relationships"
    /\ requests["r2"].entities # <<>>
    /\ requests["r2"].entities # requests["r1"].context.entities

(***************************************************************************)
(* Context requests while other clients write to the Graph Store           *)
(***************************************************************************)
\* every request in flight has lived through the new graph state
Meanwhile(ns, es) ==
    [r \in DOMAIN requests |->
        IF InFlight(requests[r])
        THEN [requests[r] EXCEPT !.existed = @ \cup {<<ns, es>>}]
        ELSE requests[r]]

SomeRequestInFlight == \E r \in DOMAIN requests : InFlight(requests[r])

\* another worker calls create_entity while a request is in flight
CreateEntityMeanwhile ==
    /\ SomeRequestInFlight
    /\ \E entity \in ConcurrentEntities, rejection_raised \in BOOLEAN :
        LET r == create_entity(nodes, edges, entity, TRUE, rejection_raised)
        IN /\ nodes' = r.nodes
           /\ edges' = r.edges
           /\ requests' = Meanwhile(r.nodes, r.edges)
    /\ UNCHANGED <<collection, last, company_data, company_stores, writes>>

\* another worker calls create_relationship while a request is in flight
CreateRelationshipMeanwhile ==
    /\ SomeRequestInFlight
    /\ \E relationship \in ConcurrentRelationships, rejection_raised \in BOOLEAN :
        LET r == create_relationship(nodes, edges, relationship, TRUE,
                                     rejection_raised)
        IN /\ nodes' = r.nodes
           /\ edges' = r.edges
           /\ requests' = Meanwhile(r.nodes, r.edges)
    /\ UNCHANGED <<collection, last, company_data, company_stores, writes>>

\* another client of the Graph Store server sets the properties of an
\* Entity node while a request is in flight
UpsertEntityMeanwhile ==
    /\ writes < MaxWrites
    /\ SomeRequestInFlight
    /\ \E entity \in ConcurrentEntities :
        LET ns == [id \in DOMAIN nodes \cup {entity.id} |->
                      IF id = entity.id THEN entity ELSE nodes[id]]
        IN /\ nodes' = ns
           /\ edges' = edges
           /\ requests' = Meanwhile(ns, edges)
    /\ writes' = writes + 1
    /\ UNCHANGED <<collection, last, company_data, company_stores>>

\* another client of the Graph Store server sets the properties of a
\* RELATES_TO relationship between two stored entities while a request is
\* in flight
UpsertRelationshipMeanwhile ==
    /\ writes < MaxWrites
    /\ SomeRequestInFlight
    /\ \E relationship \in ConcurrentRelationships :
        /\ MatchEndpoints(nodes, relationship) # {}
        /\ LET pair == <<relationship.source_entity_id,
                         relationship.target_entity_id>>
               es == [p \in DOMAIN edges \cup {pair} |->
                         IF p = pair THEN EdgeProperties(relationship)
                         ELSE edges[p]]
           IN /\ nodes' = nodes
              /\ edges' = es
              /\ requests' = Meanwhile(nodes, es)
    /\ writes' = writes + 1
    /\ UNCHANGED <<collection, last, company_data, company_stores>>

\* another worker calls delete_entity while a request is in flight
DeleteEntityMeanwhile ==
    /\ writes < MaxWrites
    /\ SomeRequestInFlight
    /\ \E entity_id \in ConcurrentDeletes :
        LET r == delete_entity(nodes, edges, entity_id, TRUE)
        IN /\ nodes' = r.nodes
           /\ edges' = r.edges
           /\ requests' = Meanwhile(r.nodes, r.edges)
    /\ writes' = writes + 1
    /\ UNCHANGED <<collection, last, company_data, company_stores>>

InitConcurrent ==
    /\ nodes = AcmeNodes
    /\ edges = AcmeEdges
    /\ collection = IndexedChunks
    /\ last = Idle
    /\ company_data = NoCompanyData
    /\ company_stores = NoCompanyStores
    /\ requests = OneRequest
    /\ writes = 0

NextConcurrent ==
    \/ StartRequest
    \/ AnalyzeQueryIntent
    \/ SearchByQuery
    \/ SearchByKeyTerm
    \/ ReadEntityRelationships
    \/ SearchChunks
    \/ GenerateContextSummary
    \/ CreateEntityMeanwhile
    \/ CreateRelationshipMeanwhile
    \/ UpsertEntityMeanwhile
    \/ UpsertRelationshipMeanwhile
    \/ DeleteEntityMeanwhile

SpecConcurrent == InitConcurrent /\ [][NextConcurrent]_vars

NoTwoWithSameId(entities) ==
    \A i, j \in 1..Len(entities) : entities[i].id = entities[j].id => i = j

(***************************************************************************)
(* C21: _get_relevant_entities returns no two entities with the same id,   *)
(* and of an id returned by more than one of its searches it keeps the     *)
(* first occurrence, in list position and in field values, also when the   *)
(* entity is upserted in the Graph Store between those searches.           *)
(***************************************************************************)
C21_FirstOccurrenceKept ==
    \A r \in DOMAIN requests :
        (requests[r].pc # "new" /\ EntitiesRetrieved(requests[r])) =>
            /\ NoTwoWithSameId(requests[r].entities)
            /\ [i \in 1..Len(requests[r].entities) |-> requests[r].entities[i].id]
                   = Take(requests[r].seen_order, requests[r].max_entities)
            /\ \A i \in 1..Len(requests[r].entities) :
                   requests[r].entities[i] =
                       requests[r].first_seen[requests[r].entities[i].id]

\* the entities and relationships build_context returns on one graph state
OnSnapshot(request, ns, es) ==
    \E ties \in CallTies(ns, es) :
        LET entities == _get_relevant_entities(ns, request.query,
                            request.max_entities, ties, GraphUp)
        IN /\ request.context.entities = entities
           /\ request.context.relationships =
                  _get_relevant_relationships(ns, es, entities, ties, GraphUp)

(***************************************************************************)
(* C26: when build_context runs concurrently with create_entity,           *)
(* create_relationship or delete_entity, the entities and relationships    *)
(* of the returned Context are what build_context would return on one      *)
(* single Graph Store state that existed between the call's start and its  *)
(* return (snapshot consistency).                                          *)
(***************************************************************************)
C26_SnapshotConsistent ==
    \A r \in DOMAIN requests :
        requests[r].pc = "done" =>
            \E s \in requests[r].existed : OnSnapshot(requests[r], s[1], s[2])

(***************************************************************************)
(* C26 (amended): when build_context runs concurrently with create_entity, *)
(* create_relationship or delete_entity, every entity of the returned      *)
(* Context was stored, with the id and name returned, in a Graph Store     *)
(* state that existed between the call's start and its return; every       *)
(* relationship of the Context was stored in such a state and has one of   *)
(* the first five entities of the Context as its source; and when all the  *)
(* graph reads of the call saw the same Graph Store state, the entities    *)
(* and relationships are those build_context returns on that state.        *)
(***************************************************************************)
C26_EachPartOnceStored ==
    \A r \in DOMAIN requests :
        requests[r].pc = "done" =>
            /\ \A i \in 1..Len(requests[r].context.entities) :
                   \E s \in requests[r].existed :
                       LET e == requests[r].context.entities[i]
                       IN /\ e.id \in DOMAIN s[1]
                          /\ s[1][e.id].name = e.name
            /\ \A i \in 1..Len(requests[r].context.relationships) :
                   LET rel == requests[r].context.relationships[i]
                   IN /\ \E s \in requests[r].existed :
                             /\ Pair(rel) \in DOMAIN s[2]
                             /\ s[2][Pair(rel)].relationship_type =
                                    rel.relationship_type
                      /\ \E j \in 1..Len(Take(requests[r].context.entities,
                                              MaxExpandedEntities)) :
                             requests[r].context.entities[j].id =
                                 rel.source_entity_id
            /\ \A s \in requests[r].reads :
                   requests[r].reads = {s} => OnSnapshot(requests[r], s[1], s[2])

\* a request returned whose graph reads saw more than one state: an entity
\* of its Context had been deleted before the relationships were read
C26_Witness ==
    /\ requests["r1"].pc = "done"
    /\ Cardinality(requests["r1"].reads) > 1
    /\ \E i \in 1..Len(requests["r1"].context.entities) :
           requests["r1"].context.entities[i].id \notin DOMAIN nodes
    /\ requests["r1"].context.relationships # <<>>
    /\ \A s \in requests["r1"].existed : ~OnSnapshot(requests["r1"], s[1], s[2])

====
